---- MODULE Spec2Model ----
(***************************************************************************)
(* A model of the prompt-processing prototype (lsst-dm/prompt-prototype).  *)
(*                                                                         *)
(*   Spec        the Flask view next_visit_handler of activator.py: one   *)
(*               request from the token check to the deletion of its      *)
(*               subscription, with the Pub/Sub pulls, the bucket scan and *)
(*               the middleware calls as the environment.                  *)
(*   FairSpec    Spec with weak fairness of the handler's steps.           *)
(*   SpecConfig  PipelinesConfig of config.py: construction from a list of *)
(*               nodes and get_pipeline_files for a visit.                 *)
(***************************************************************************)
EXTENDS Integers, Sequences, FiniteSets, TLC

(***************************************************************************)
(* Bounds of the model.                                                    *)
(***************************************************************************)
MaxBatch == 2        \* messages returned by one pull (the code asks for at most 205)
MaxTime == 2         \* the clock saturates here: elapsed = MaxTime means "at least MaxTime"
MaxTimeout == 1      \* the configured timeouts range over 1..MaxTimeout
MaxSnaps == 2        \* the expected snap counts range over 1..MaxSnaps
MaxIngest == 2       \* the per-object count of ingest_image calls saturates here
MaxNodes == 2        \* nodes of a pipelines config
MaxPipelines == 2    \* pipeline files of one node
MaxCandidates == 3   \* pipelines configured for a visit, in priority order
MaxQuanta == 2       \* nodes of a quantum graph
MaxAttempts == 2     \* MiddlewareInterface objects made on one local repo

VARIABLES
    \* ---- activator.py: module state and the request
    active_instrument,  \* active_instrument.getName()
    timeout,            \* the module global `timeout`: [isStr, val]
    request,            \* the inbound request: [token_ok, envelope, visit]
    bucket,             \* objects already in the image bucket when the request arrives
    \* ---- next_visit_handler: locals and position
    pc,
    subscription,       \* "none", "active" or "deleted"
    expid_set,          \* the set of exposure ids, as a multiplicity per id
    scan_snap,          \* loop variable of the initial scan
    elapsed,            \* end - start of the last pull
    received,           \* len(response.received_messages) of the last pull
    batch,              \* the messages of that response the for loop has read
    idx,                \* position of the for loop in the batch
    ack_list,
    outstanding,        \* ack ids received and not acknowledged
    wait_exit,          \* how the while loop ended: "none", "complete", "timed_out"
    outcome,            \* the pending return value or exception of the try block
    response,           \* what the client gets
    \* ---- calls into MiddlewareInterface
    prepped,            \* prep_butler has returned
    ingested,           \* number of ingest_image calls per object, saturating
    pipeline_runs,      \* the exposure-id sets run_pipeline was called with
    \* ---- config.py
    cfg_nodes,          \* the `config` argument of PipelinesConfig
    cfg_state,          \* "new", "built" or "ValueError"
    cfg_specs,          \* self._specs
    cfg_survey,         \* visit.survey of the visit to resolve
    cfg_result,         \* outcome of get_pipeline_files
    \* ---- middleware_interface.py: run_pipeline
    rp_exposure_ids,    \* the argument exposure_ids
    rp_ingested,        \* the exposures the local repo has records of
    rp_graphs,          \* size of the graph each configured pipeline gives, by priority
    rp_pc,
    rp_qgraph,          \* len(qgraph) of the last make_quantum_graph call
    rp_graph_calls,     \* the pipelines make_quantum_graph was called for
    rp_preexec_calls,   \* the pipelines pre_execute_qgraph was called for
    rp_run_calls,       \* the pipelines executor.run_pipeline was called for
    rp_error,           \* the exception run_pipeline ends with, "" if none
    \* ---- middleware_interface.py: the output run of a MiddlewareInterface
    or_instrument,      \* visit.instrument
    or_now,             \* the last reading of the clock (UTC)
    or_attempts,        \* per object: [now, deployment, output_run, init_output_run]
    or_runs,            \* the RUN collections registered in the local repo
    \* ---- middleware_interface.py: _filter_datasets
    fd_src,             \* the datasets of src_repo
    fd_dest,            \* the datasets of dest_repo
    fd_query,           \* *args, **kwargs
    fd_src_error,       \* the exception the query of src_repo raises, "" if none
    fd_dest_error,      \* the exception the query of dest_repo raises, "" if none
    fd_pc,
    fd_known_datasets,
    fd_src_datasets,
    fd_calls,           \* the queryDatasets calls made: [repo, query]
    fd_result,          \* the returned datasets
    fd_error,           \* the exception _filter_datasets ends with, "" if none
    \* ---- middleware_interface.py: prep_butler
    pb_central,         \* the datasets of the central repo
    pb_local,           \* the datasets of the local repo
    pb_skymap_dim,      \* the local repo has the skymap dimension record
    pb_collections,     \* the collections of the local repo
    pb_chain,           \* the local repo's umbrella chain
    pb_visit,
    pb_pc,
    pb_export,          \* export.saveDatasets so far
    pb_export_coll,     \* export.saveCollection so far
    pb_log,             \* _log.error calls of the running prep_butler
    pb_before,          \* the local repo when the running prep_butler began
    pb_history,          \* one record per finished prep_butler call
    \* ---- middleware_interface.py: _export_calibs
    ec_central,         \* the calibs of the central repo, with their validity ranges
    ec_visit,           \* detector and date of the visit
    ec_pc,
    ec_export,          \* export.saveDatasets(calibs)
    ec_error,
    \* ---- middleware_interface.py: _prepend_collection, _remove_from_chain
    ch_chain,           \* the members of the chain in the registry
    ch_arg,             \* new_collections or old_collections
    ch_old,             \* the members of the chain before the call
    ch_pc,
    \* ---- middleware_interface.py: ingest_image .. clean_local_repo
    lr_local,           \* the datasets of the local repo
    lr_runs,            \* the RUN collections of the local repo
    lr_chains,          \* the CHAINED collections of the local repo
    lr_central_chain,   \* the umbrella chain of the central repo
    lr_central,         \* the datasets of the central repo
    lr_calls,           \* number of calls made
    lr_last,             \* the last call, its outcome, and the repos before it
    \* ---- raw.py: get_raw_path and the decoders
    rt_fields,          \* instrument, detector, group, snap, exposure_id, filter
    rt_path,            \* the path get_raw_path built
    rt_decoded,         \* what the decoders read from the path
    rt_pc,
    \* ---- middleware_interface.py: two callers of _prepend_collection
    cc_chain,           \* the chain in the registry
    cc_new,             \* per caller: new_collections
    cc_old,             \* per caller: old_chain, as read
    cc_pc,              \* per caller: "start", "read" or "done"
    cc_overlap,          \* one call started between the read and the write of the other
    \* ---- middleware_interface.py: two workspaces exporting to one central repo
    ex_local,           \* per workspace: the datasets of its local repo
    ex_central,         \* the datasets of the central repo
    ex_pc,              \* per workspace: "start", "raws", "done" or "raised"
    ex_start,            \* the central repo before the exports
    \* ---- raw.py: get_group_id_from_oid waiting for the sidecar
    sc_oid,             \* the argument oid
    sc_sidecar,         \* the path of the sidecar file
    sc_exists,          \* the sidecar file is in the bucket
    sc_md,              \* the JSON object of the sidecar file
    sc_count,           \* the local count
    sc_checks,          \* number of sidecar.exists() calls
    sc_sleeps,          \* number of time.sleep(0.1) calls
    sc_pc,
    sc_result           \* the value returned

hvars == <<active_instrument, timeout, request, bucket, pc, subscription, expid_set,
           scan_snap, elapsed, received, batch, idx, ack_list, outstanding, wait_exit,
           outcome, response, prepped, ingested, pipeline_runs>>
cvars == <<cfg_nodes, cfg_state, cfg_specs, cfg_survey, cfg_result>>
rvars == <<rp_exposure_ids, rp_ingested, rp_graphs, rp_pc, rp_qgraph, rp_graph_calls,
           rp_preexec_calls, rp_run_calls, rp_error>>
ovars == <<or_instrument, or_now, or_attempts, or_runs>>
fvars == <<fd_src, fd_dest, fd_query, fd_src_error, fd_dest_error, fd_pc,
           fd_known_datasets, fd_src_datasets, fd_calls, fd_result, fd_error>>
pvars == <<pb_central, pb_local, pb_skymap_dim, pb_collections, pb_chain, pb_visit,
           pb_pc, pb_export, pb_export_coll, pb_log, pb_before, pb_history>>
evars == <<ec_central, ec_visit, ec_pc, ec_export, ec_error>>
kvars == <<ch_chain, ch_arg, ch_old, ch_pc>>
lvars == <<lr_local, lr_runs, lr_chains, lr_central_chain, lr_central, lr_calls, lr_last>>
tvars == <<rt_fields, rt_path, rt_decoded, rt_pc>>
xvars == <<cc_chain, cc_new, cc_old, cc_pc, cc_overlap>>
wvars == <<ex_local, ex_central, ex_pc, ex_start>>
svars == <<sc_oid, sc_sidecar, sc_exists, sc_md, sc_count, sc_checks, sc_sleeps, sc_pc, sc_result>>
mvars == <<rvars, ovars, fvars, pvars, evars, kvars, lvars, tvars, xvars, wvars, svars>>
vars == <<hvars, cvars, mvars>>
\* What the steps of one specification leave alone.
NotPipeline == <<hvars, cvars, ovars, fvars, pvars, evars, kvars, lvars, tvars, xvars, wvars, svars>>
NotOutputRun == <<hvars, cvars, rvars, fvars, pvars, evars, kvars, lvars, tvars, xvars, wvars, svars>>
NotFilter == <<hvars, cvars, rvars, ovars, pvars, evars, kvars, lvars, tvars, xvars, wvars, svars>>
NotPrep == <<hvars, cvars, rvars, ovars, fvars, evars, kvars, lvars, tvars, xvars, wvars, svars>>
NotCalibs == <<hvars, cvars, rvars, ovars, fvars, pvars, kvars, lvars, tvars, xvars, wvars, svars>>
NotChain == <<hvars, cvars, rvars, ovars, fvars, pvars, evars, lvars, tvars, xvars, wvars, svars>>
NotRepo == <<hvars, cvars, rvars, ovars, fvars, pvars, evars, kvars, tvars, xvars, wvars, svars>>
NotPath == <<hvars, cvars, rvars, ovars, fvars, pvars, evars, kvars, lvars, xvars, wvars, svars>>
NotRace == <<hvars, cvars, rvars, ovars, fvars, pvars, evars, kvars, lvars, tvars, wvars, svars>>
NotExport == <<hvars, cvars, rvars, ovars, fvars, pvars, evars, kvars, lvars, tvars, xvars, svars>>
NotSidecar == <<hvars, cvars, rvars, ovars, fvars, pvars, evars, kvars, lvars, tvars, xvars, wvars>>

Min(a, b) == IF a < b THEN a ELSE b
Range(s) == {s[i] : i \in DOMAIN s}
SeqsUpTo(S, n) == UNION {[1..k -> S] : k \in 0..n}

(***************************************************************************)
(* Object paths.  A path is kept as the fields the patterns of raw.py see  *)
(* in it; numbers in a path are digit strings, as in the path.             *)
(***************************************************************************)
GenericPath(i, d, g, s, e) ==
    [scheme |-> "generic", instrument |-> i, detector |-> d, group |-> g,
     snap |-> s, expid |-> e, raft_sensor |-> ""]
LsstPath(i, rs, e) ==
    [scheme |-> "lsst", instrument |-> i, detector |-> "", group |-> "",
     snap |-> "", expid |-> e, raft_sensor |-> rs]
JunkPath ==
    [scheme |-> "junk", instrument |-> "", detector |-> "", group |-> "",
     snap |-> "", expid |-> "", raft_sensor |-> ""]

\* int() of a digit string of a path
IntOf(s) ==
    CASE s = "0" -> 0
      [] s = "1" -> 1
      [] s = "01" -> 1
      [] s = "2" -> 2
      [] s = "3" -> 3
      [] s = "7" -> 7
      [] s = "8" -> 8
      [] OTHER -> -1

\* str() / f"{n}" of an integer
StrOf(n) ==
    CASE n = 0 -> "0"
      [] n = 1 -> "1"
      [] n = 2 -> "2"
      [] n = 3 -> "3"
      [] n = 7 -> "7"
      [] n = 8 -> "8"
      [] OTHER -> "?"

ExpIds == {"e1", "e2", "e3"}

Oids ==
    { GenericPath("HSC", "1", "7", "0", "e1"),
      GenericPath("HSC", "1", "7", "1", "e2"),
      GenericPath("HSC", "01", "7", "0", "e3"),
      GenericPath("HSC", "1", "7", "2", "e3"),
      GenericPath("DECam", "1", "7", "0", "e1"),
      GenericPath("HSC", "2", "7", "0", "e1"),
      GenericPath("HSC", "1", "8", "0", "e1"),
      LsstPath("LSSTCam", "R01_S01", "e1"),
      JunkPath }

Instruments == {"HSC", "LSSTCam"}

\* The visits a request can carry (Visit(**data)).
Visits ==
    [instrument : Instruments, detector : {1}, group : {7}, snaps : 1..MaxSnaps]

\* request.get_json() and what the payload decodes to
Envelopes == {"empty", "not_dict", "no_message", "no_data", "bad_payload",
              "missing_field", "ok"}


(***************************************************************************)
(* raw.py: the path decoder                                                *)
(***************************************************************************)
LSST_CAMERA_LIST == {"LATISS", "ComCam", "LSSTComCam", "LSSTCam", "TS8", "LSST-TS8"}

\* _TRANSLATE_INSTRUMENT.get(instrument, instrument)
TRANSLATE_INSTRUMENT(i) ==
    CASE i = "ComCam" -> "LSSTComCam"
      [] i = "TS8" -> "LSST-TS8"
      [] OTHER -> i

LSSTCAM_RAFTS ==
    { <<"R01", 0>>, <<"R02", 1>>, <<"R03", 2>>,
      <<"R10", 3>>, <<"R11", 4>>, <<"R12", 5>>, <<"R13", 6>>, <<"R14", 7>>,
      <<"R20", 8>>, <<"R21", 9>>, <<"R22", 10>>, <<"R23", 11>>, <<"R24", 12>>,
      <<"R30", 13>>, <<"R31", 14>>, <<"R32", 15>>, <<"R33", 16>>, <<"R34", 17>>,
      <<"R41", 18>>, <<"R42", 19>>, <<"R43", 20>> }
LSSTCAM_CORNER_RAFTS ==
    { <<"R00", 189>>, <<"R04", 193>>, <<"R40", 197>>, <<"R44", 201>> }

\* _DETECTOR_FROM_RS, as the set of <<instrument, raft_sensor, detector>>
DETECTOR_FROM_RS ==
    {<<"LATISS", "R00_S00", 0>>}
    \cup {<<i, "R22_S" \o StrOf(x) \o StrOf(y), x * 3 + y>> :
            i \in {"LSSTComCam", "LSST-TS8"}, x \in 0..2, y \in 0..2}
    \cup {<<"LSSTCam", r[1] \o "_S" \o StrOf(x) \o StrOf(y), r[2] * 9 + x * 3 + y>> :
            r \in LSSTCAM_RAFTS, x \in 0..2, y \in 0..2}
    \cup {<<"LSSTCam", r[1] \o "_S" \o x \o StrOf(y),
            r[2] + (IF x = "G" THEN 0 ELSE 2) + y>> :
            r \in LSSTCAM_CORNER_RAFTS, x \in {"G", "W"}, y \in 0..1}

\* is_path_consistent(oid, visit), visit a FannedOutVisit.  The result is
\* "True" or "False", or the exception of the tuple unpacking ("ValueError",
\* a path without "/") or of the table lookup ("KeyError").
PyBool(b) == IF b THEN "True" ELSE "False"
is_path_consistent(oid, visit) ==
    IF oid.scheme = "junk" THEN "ValueError"
    ELSE IF oid.instrument \notin LSST_CAMERA_LIST
    THEN IF oid.scheme = "generic"
         THEN PyBool(/\ oid.instrument = visit.instrument
                     /\ IntOf(oid.detector) = visit.detector
                     /\ oid.group = visit.groupId
                     /\ (IntOf(oid.snap) < visit.nimages \/ visit.nimages = 0))
         ELSE "False"
    ELSE LET instrument == TRANSLATE_INSTRUMENT(oid.instrument)
         IN  IF oid.scheme = "lsst"
             THEN LET hits == {t \in DETECTOR_FROM_RS :
                                 t[1] = instrument /\ t[2] = oid.raft_sensor}
                  IN  IF hits = {} THEN "KeyError"
                      ELSE PyBool(/\ instrument = visit.instrument
                                  /\ (CHOOSE t \in hits : TRUE)[3] = visit.detector)
             ELSE "False"

(***************************************************************************)
(* config.py: PipelinesConfig                                              *)
(***************************************************************************)
\* A pipeline file name: directory, stem and extension.
Path(d, n, e) == [dir |-> d, stem |-> n, ext |-> e]
ConfigPaths ==
    { Path("/etc/pipelines", "ApPipe", ".yaml"),
      Path("${AP_PIPE_DIR}", "ApPipe", ".yml"),
      Path("pipelines", "Isr", ".yaml") }

\* os.path.abspath(os.path.expandvars(path))
expandvars(p) == IF p.dir = "${AP_PIPE_DIR}" THEN [p EXCEPT !.dir = "/opt/ap_pipe"] ELSE p
abspath(p) == IF p.dir = "pipelines" THEN [p EXCEPT !.dir = "/cwd/pipelines"] ELSE p
\* os.path.splitext(os.path.basename(path))[0]
basename(p) == [stem |-> p.stem, ext |-> p.ext]
splitext0(b) == b.stem

\* Values of a config node: None, a string, a list, or something else.
NoneVal == [type |-> "none", str |-> "", list |-> <<>>]
StrVal(s) == [type |-> "str", str |-> s, list |-> <<>>]
ListVal(l) == [type |-> "list", str |-> "", list |-> l]
IntVal == [type |-> "int", str |-> "", list |-> <<>>]

Surveys == {"S1"}
Node(hp, p, s, x) == [has_pipelines |-> hp, pipelines |-> p, survey |-> s, extra |-> x]
ConfigNodes ==
    {Node(TRUE, p, s, FALSE) :
        p \in {NoneVal} \cup {ListVal(l) : l \in SeqsUpTo(ConfigPaths, MaxPipelines)},
        s \in {NoneVal} \cup {StrVal(v) : v \in Surveys}}
    \cup { Node(TRUE, StrVal("None"), NoneVal, FALSE),
           Node(TRUE, StrVal("ApPipe.yaml"), NoneVal, FALSE),
           Node(TRUE, IntVal, NoneVal, FALSE),
           Node(FALSE, NoneVal, StrVal("S1"), FALSE),
           Node(TRUE, NoneVal, IntVal, FALSE),
           Node(TRUE, NoneVal, StrVal(""), FALSE),
           Node(TRUE, NoneVal, NoneVal, TRUE) }

\* _Spec._parse_pipelines: the normalized file list, or ValueError
parse_pipelines_strict(config) ==
    IF config.type = "list"
    THEN <<"ok", [i \in DOMAIN config.list |-> abspath(expandvars(config.list[i]))]>>
    ELSE <<"ValueError">>
parse_pipelines(config) ==
    IF config.type = "none" \/ (config.type = "str" /\ config.str = "None") THEN <<"ok", <<>>>>
    ELSE IF config.type = "str" THEN <<"ValueError">>
    ELSE IF config.type = "list"
    THEN <<"ok", [i \in DOMAIN config.list |-> abspath(expandvars(config.list[i]))]>>
    ELSE <<"ValueError">>

\* _Spec._parse_survey
parse_survey(config) ==
    IF config.type \in {"str", "none"} THEN <<"ok", config>> ELSE <<"ValueError">>

\* _Spec._check_pipelines: TRUE if no two pipelines have the same base name
NoCheck(pipelines) == TRUE
check_pipelines(pipelines) ==
    LET name(i) == splitext0(basename(pipelines[i]))
        duplicates == {name(i) : i \in {j \in DOMAIN pipelines :
                          Cardinality({k \in DOMAIN pipelines : name(k) = name(j)}) > 1}}
    IN  duplicates = {}

\* _Spec.__init__: the spec of a node, or ValueError
SpecOf(node) ==
    IF ~node.has_pipelines THEN <<"ValueError">>
    ELSE LET f == parse_pipelines(node.pipelines)
         IN  IF f[1] # "ok" THEN f
             ELSE IF ~check_pipelines(f[2]) THEN <<"ValueError">>
             ELSE LET sv == parse_survey(node.survey)
                  IN  IF sv[1] # "ok" THEN sv
                      ELSE IF node.extra THEN <<"ValueError">>
                      ELSE <<"ok", [filenames |-> f[2], survey |-> sv[2]]>>

\* PipelinesConfig.__init__ and _expand_config
PipelinesConfigInit(config) ==
    IF config = <<>> THEN <<"ValueError">>
    ELSE IF \E i \in DOMAIN config : SpecOf(config[i])[1] # "ok" THEN <<"ValueError">>
    ELSE <<"ok", [i \in DOMAIN config |-> SpecOf(config[i])[2]]>>

\* _Spec.matches
matches(spec, survey) ==
    IF spec.survey.type # "none" /\ spec.survey.str # survey THEN FALSE ELSE TRUE

\* PipelinesConfig.get_pipeline_files: the first matching node wins
RECURSIVE FirstMatch(_, _, _)
FirstMatch(specs, i, survey) ==
    IF i > Len(specs) THEN <<"RuntimeError">>
    ELSE IF matches(specs[i], survey) THEN <<"ok", specs[i].filenames>>
    ELSE FirstMatch(specs, i + 1, survey)
RECURSIVE LastMatch(_, _, _)
LastMatch(specs, i, survey) ==
    IF i < 1 THEN <<"RuntimeError">>
    ELSE IF matches(specs[i], survey) THEN <<"ok", specs[i].filenames>>
    ELSE LastMatch(specs, i - 1, survey)
get_pipeline_files_last(specs, survey) == LastMatch(specs, Len(specs), survey)
get_pipeline_files(specs, survey) == FirstMatch(specs, 1, survey)

(***************************************************************************)
(* activator.py                                                            *)
(***************************************************************************)

\* re.match(RAW_REGEXP, oid): the pattern instrument/detector/group/snap/...expid...
\* with numeric detector and snap; paths of the other schemes do not match.
RawMatch(oid) == oid.scheme = "generic"

\* The condition under which a received notification is ingested.
SnapMatchesNoGroup(oid, visit) ==
    /\ oid.instrument = visit.instrument
    /\ IntOf(oid.detector) = visit.detector
    /\ IntOf(oid.snap) < visit.snaps
SnapMatches(oid, visit) ==
    /\ oid.instrument = visit.instrument
    /\ IntOf(oid.detector) = visit.detector
    /\ oid.group = StrOf(visit.group)
    /\ IntOf(oid.snap) < visit.snaps

\* check_for_snap: the blobs whose name starts with
\* f"{instrument}/{detector}/{group}/{snap}/".
check_for_snap(blobs, instrument, group, snap, detector) ==
    {b \in blobs : /\ b.scheme = "generic"
                   /\ b.instrument = instrument
                   /\ b.detector = StrOf(detector)
                   /\ b.group = StrOf(group)
                   /\ b.snap = StrOf(snap)}

\* expid_set = set(); expid_set.add(expid); len(expid_set).  The set is kept
\* as the number of times each id is held, which a set keeps at one.
EmptyExpidSet == [e \in ExpIds |-> 0]
ListAppend(s, e) == [s EXCEPT ![e] = IF @ < MaxIngest THEN @ + 1 ELSE @]
SetAdd(s, e) == [s EXCEPT ![e] = 1]
SetLen(s) == s["e1"] + s["e2"] + s["e3"]
Members(s) == {e \in ExpIds : s[e] > 0}

\* while len(expid_set) < expected_visit.snaps
KeepWaiting(s, visit) == SetLen(s) < visit.snaps

\* if end - start < timeout: continue  / else: break.  A timeout taken from
\* the environment is a string, and float < str raises TypeError.
EmptyPull(el, t) ==
    IF t.isStr THEN "TypeError"
    ELSE IF el < t.val THEN "continue" ELSE "break"

\* ack_list.append(received.ack_id), for every received message
AckOnlyMatching(acks, i, oid, visit) ==
    IF RawMatch(oid) /\ SnapMatches(oid, visit) THEN Append(acks, i) ELSE acks
AckAppend(acks, i, oid, visit) == Append(acks, i)

\* if expid_set: run the pipeline
AlwaysRun(s) == TRUE
HasExposures(s) == Members(s) # {}

\* finally: subscriber.delete_subscription(...)
DeleteOnReturnOnly(sub, out) == IF out.kind = "raise" THEN sub ELSE "deleted"
DeleteSubscription(sub, out) == "deleted"

Return(msg, status) == [kind |-> "return", msg |-> msg, status |-> status]
Raise(err) == [kind |-> "raise", msg |-> err, status |-> 500]
NoOutcome == [kind |-> "none", msg |-> "", status |-> 0]
NoResponse == [msg |-> "", status |-> 0]

\* @app.errorhandler(500): what the client gets for an unhandled exception
server_error(e) == [msg |-> "An internal error occurred", status |-> 500]

NoIngest(f, oid) == f
Bump(f, oid) == [f EXCEPT ![oid] = Min(@ + 1, MaxIngest)]

expected_visit == request.visit

\* timeout = os.environ.get("IMAGE_TIMEOUT", 50): the number of the default
\* (scaled to the clock of the model), or the string of the environment.
Timeouts ==
    {[isStr |-> FALSE, val |-> v] : v \in 1..MaxTimeout} \cup {[isStr |-> TRUE, val |-> 1]}

\* The objects that may be in the bucket before the request: the first two
\* snaps of the HSC visit.
Arrived ==
    {o \in Oids : /\ o.scheme = "generic" /\ o.instrument = "HSC" /\ o.group = "7"
                  /\ o.detector = "1" /\ IntOf(o.snap) < 2}

ConfigIdle ==
    /\ cfg_nodes = <<>>
    /\ cfg_state = "idle"
    /\ cfg_specs = <<>>
    /\ cfg_survey = ""
    /\ cfg_result = <<"none">>

RunPipelineIdle ==
    /\ rp_exposure_ids = {}
    /\ rp_ingested = {}
    /\ rp_graphs = <<>>
    /\ rp_pc = "idle"
    /\ rp_qgraph = 0
    /\ rp_graph_calls = <<>>
    /\ rp_preexec_calls = <<>>
    /\ rp_run_calls = <<>>
    /\ rp_error = ""

OutputRunIdle ==
    /\ or_instrument = ""
    /\ or_now = [year |-> 0, month |-> 0, day |-> 0, hour |-> 0]
    /\ or_attempts = <<>>
    /\ or_runs = {}

FilterIdle ==
    /\ fd_src = {}
    /\ fd_dest = {}
    /\ fd_query = ""
    /\ fd_src_error = ""
    /\ fd_dest_error = ""
    /\ fd_pc = "idle"
    /\ fd_known_datasets = {}
    /\ fd_src_datasets = {}
    /\ fd_calls = <<>>
    /\ fd_result = {}
    /\ fd_error = ""

PrepIdle ==
    /\ pb_central = {}
    /\ pb_local = {}
    /\ pb_skymap_dim = FALSE
    /\ pb_collections = {}
    /\ pb_chain = <<>>
    /\ pb_visit = [detector |-> 0, groupId |-> 0]
    /\ pb_pc = "idle"
    /\ pb_export = {}
    /\ pb_export_coll = {}
    /\ pb_log = <<>>
    /\ pb_before = [datasets |-> {}, collections |-> {}, chain |-> <<>>]
    /\ pb_history = <<>>

CalibsIdle ==
    /\ ec_central = {}
    /\ ec_visit = [detector |-> 0, date |-> 0]
    /\ ec_pc = "idle"
    /\ ec_export = {}
    /\ ec_error = ""

ChainIdle ==
    /\ ch_chain = <<>>
    /\ ch_arg = <<>>
    /\ ch_old = <<>>
    /\ ch_pc = "idle"

RepoIdle ==
    /\ lr_local = {}
    /\ lr_runs = {}
    /\ lr_chains = <<>>
    /\ lr_central_chain = <<>>
    /\ lr_central = {}
    /\ lr_calls = 0
    /\ lr_last = <<>>

PathIdle ==
    /\ rt_fields = <<>>
    /\ rt_path = ""
    /\ rt_decoded = <<>>
    /\ rt_pc = "idle"

RaceIdle ==
    /\ cc_chain = <<>>
    /\ cc_new = <<>>
    /\ cc_old = <<>>
    /\ cc_pc = <<>>
    /\ cc_overlap = FALSE

ExportIdle ==
    /\ ex_local = <<>>
    /\ ex_central = {}
    /\ ex_pc = <<>>
    /\ ex_start = {}

SidecarIdle ==
    /\ sc_oid = ""
    /\ sc_sidecar = ""
    /\ sc_exists = FALSE
    /\ sc_md = <<>>
    /\ sc_count = 0
    /\ sc_checks = 0
    /\ sc_sleeps = 0
    /\ sc_pc = "idle"
    /\ sc_result = ""

MwiIdle ==
    /\ RunPipelineIdle
    /\ OutputRunIdle
    /\ FilterIdle
    /\ PrepIdle
    /\ CalibsIdle
    /\ ChainIdle
    /\ RepoIdle
    /\ PathIdle
    /\ RaceIdle
    /\ ExportIdle
    /\ SidecarIdle

Init ==
    /\ active_instrument \in Instruments
    /\ timeout \in Timeouts
    /\ request \in [token_ok : BOOLEAN, envelope : Envelopes, visit : Visits]
    /\ bucket \in SUBSET Arrived
    /\ pc = "start"
    /\ subscription = "none"
    /\ expid_set = EmptyExpidSet
    /\ scan_snap = 0
    /\ elapsed = 0
    /\ received = 0
    /\ batch = <<>>
    /\ idx = 0
    /\ ack_list = <<>>
    /\ outstanding = {}
    /\ wait_exit = "none"
    /\ outcome = NoOutcome
    /\ response = NoResponse
    /\ prepped = FALSE
    /\ ingested = [o \in Oids |-> 0]
    /\ pipeline_runs = <<>>
    /\ ConfigIdle
    /\ MwiIdle

\* Leaving the try block, by return or by exception: the finally clause is next.
Exit(out) ==
    /\ pc' = "finally"
    /\ outcome' = out

\* Lines 140-146: the token check and create_subscription.
TokenCheck ==
    /\ pc = "start"
    /\ IF ~request.token_ok
       THEN /\ pc' = "done"
            /\ response' = [msg |-> "Invalid request", status |-> 400]
            /\ UNCHANGED subscription
       ELSE /\ pc' = "envelope"
            /\ subscription' = "active"
            /\ UNCHANGED response
    /\ UNCHANGED <<active_instrument, timeout, request, bucket, expid_set, scan_snap,
                   elapsed, received, batch, idx, ack_list, outstanding, wait_exit, outcome,
                   prepped, ingested, pipeline_runs, cvars, mvars>>

\* Lines 148-164: the envelope, the payload, Visit(**data) and the assert.
ParseEnvelope ==
    /\ pc = "envelope"
    /\ CASE request.envelope = "empty" ->
              Exit(Return("Bad Request: no Pub/Sub message received", 400))
         [] request.envelope \in {"not_dict", "no_message"} ->
              Exit(Return("Bad Request: invalid Pub/Sub message format", 400))
         [] request.envelope = "no_data" -> Exit(Raise("KeyError"))
         [] request.envelope = "bad_payload" -> Exit(Raise("ValueError"))
         [] request.envelope = "missing_field" -> Exit(Raise("TypeError"))
         [] OTHER ->
              IF expected_visit.instrument # active_instrument
              THEN Exit(Raise("AssertionError"))
              ELSE pc' = "prep" /\ UNCHANGED outcome
    /\ expid_set' = EmptyExpidSet
    /\ UNCHANGED <<active_instrument, timeout, request, bucket, subscription, scan_snap,
                   elapsed, received, batch, idx, ack_list, outstanding, wait_exit, response,
                   prepped, ingested, pipeline_runs, cvars, mvars>>

\* Line 167: mwi.prep_butler(expected_visit), which may raise.
PrepButler ==
    /\ pc = "prep"
    /\ \/ /\ prepped' = TRUE
          /\ pc' = "scan"
          /\ UNCHANGED outcome
       \/ /\ Exit(Raise("prep_butler"))
          /\ UNCHANGED prepped
    /\ scan_snap' = 0
    /\ UNCHANGED <<active_instrument, timeout, request, bucket, subscription, expid_set,
                   elapsed, received, batch, idx, ack_list, outstanding, wait_exit, response,
                   ingested, pipeline_runs, cvars, mvars>>

\* Lines 170-183: one iteration of the scan for snaps that have already
\* arrived, or the end of the scan (start = time.time()).
ScanSnap ==
    /\ pc = "scan"
    /\ IF scan_snap < expected_visit.snaps
       THEN LET found == check_for_snap(bucket, expected_visit.instrument,
                                        expected_visit.group, scan_snap,
                                        expected_visit.detector)
            IN  IF found = {}
                THEN /\ scan_snap' = scan_snap + 1
                     /\ UNCHANGED <<pc, outcome, ingested, expid_set>>
                ELSE \E oid \in found :
                       /\ ingested' = Bump(ingested, oid)
                       /\ \/ /\ expid_set' = SetAdd(expid_set, oid.expid)
                             /\ scan_snap' = scan_snap + 1
                             /\ UNCHANGED <<pc, outcome>>
                          \/ /\ Exit(Raise("ingest_image"))
                             /\ UNCHANGED <<expid_set, scan_snap>>
       ELSE /\ pc' = "loop"
            /\ UNCHANGED <<scan_snap, outcome, ingested, expid_set>>
    /\ elapsed' = 0
    /\ UNCHANGED <<active_instrument, timeout, request, bucket, subscription,
                   received, batch, idx, ack_list, outstanding, wait_exit, response,
                   prepped, pipeline_runs, cvars, mvars>>

\* Line 184, condition false: the loop ends with all expected ids.
ExitComplete ==
    /\ pc = "loop"
    /\ ~KeepWaiting(expid_set, expected_visit)
    /\ pc' = "after"
    /\ wait_exit' = "complete"
    /\ UNCHANGED <<active_instrument, timeout, request, bucket, subscription, expid_set,
                   scan_snap, elapsed, received, batch, idx, ack_list, outstanding, outcome,
                   response, prepped, ingested, pipeline_runs, cvars, mvars>>

\* Lines 184-190: subscriber.pull(...) and end = time.time().  The pull
\* returns any number of notifications up to MaxBatch, or raises.  What each
\* notification holds is chosen when the for loop reads it, which gives the
\* same behaviours as choosing the whole response here.
Pull ==
    /\ pc = "loop"
    /\ KeepWaiting(expid_set, expected_visit)
    /\ \/ /\ \E n \in 0..MaxBatch :
                /\ received' = n
                /\ outstanding' = 1..n
          /\ \E e \in elapsed..Min(elapsed + 1, MaxTime) : elapsed' = e
          /\ batch' = <<>>
          /\ pc' = "pulled"
          /\ UNCHANGED outcome
       \/ /\ Exit(Raise("pull"))
          /\ UNCHANGED <<received, batch, outstanding, elapsed>>
    /\ UNCHANGED <<active_instrument, timeout, request, bucket, subscription, expid_set,
                   scan_snap, idx, ack_list, wait_exit, response, prepped, ingested,
                   pipeline_runs, cvars, mvars>>

\* Lines 191-201: the empty pull, or the start of the for loop.
CheckEmpty ==
    /\ pc = "pulled"
    /\ IF received = 0
       THEN LET r == EmptyPull(elapsed, timeout)
            IN  /\ CASE r = "continue" -> pc' = "loop" /\ UNCHANGED <<outcome, wait_exit>>
                     [] r = "break" -> /\ pc' = "after"
                                       /\ wait_exit' = "timed_out"
                                       /\ UNCHANGED outcome
                     [] OTHER -> Exit(Raise(r)) /\ UNCHANGED wait_exit
                /\ UNCHANGED <<ack_list, idx>>
       ELSE /\ ack_list' = <<>>
            /\ idx' = 1
            /\ pc' = "batch"
            /\ UNCHANGED <<outcome, wait_exit>>
    /\ UNCHANGED <<active_instrument, timeout, request, bucket, subscription, expid_set,
                   scan_snap, elapsed, received, batch, outstanding, response, prepped,
                   ingested, pipeline_runs, cvars, mvars>>

\* Lines 202-219: one received message.
ProcessMessage ==
    /\ pc = "batch"
    /\ idx <= received
    /\ \E oid \in Oids :
           /\ batch' = Append(batch, oid)
           /\ ack_list' = AckAppend(ack_list, idx, oid, expected_visit)
           /\ IF RawMatch(oid) /\ SnapMatches(oid, expected_visit)
              THEN /\ ingested' = Bump(ingested, oid)
                   /\ \/ /\ expid_set' = SetAdd(expid_set, oid.expid)
                         /\ idx' = idx + 1
                         /\ UNCHANGED <<pc, outcome>>
                      \/ /\ Exit(Raise("ingest_image"))
                         /\ UNCHANGED <<expid_set, idx>>
              ELSE /\ idx' = idx + 1
                   /\ UNCHANGED <<pc, outcome, ingested, expid_set>>
    /\ UNCHANGED <<active_instrument, timeout, request, bucket, subscription,
                   scan_snap, elapsed, received, outstanding, wait_exit, response,
                   prepped, pipeline_runs, cvars, mvars>>

\* Line 220: subscriber.acknowledge(ack_ids=ack_list), which may raise.
Acknowledge ==
    /\ pc = "batch"
    /\ idx > received
    /\ \/ /\ outstanding' = outstanding \ Range(ack_list)
          /\ batch' = <<>>
          /\ pc' = "loop"
          /\ UNCHANGED outcome
       \/ /\ Exit(Raise("acknowledge"))
          /\ UNCHANGED <<outstanding, batch>>
    /\ UNCHANGED <<active_instrument, timeout, request, bucket, subscription, expid_set,
                   scan_snap, elapsed, received, idx, ack_list, wait_exit, response, prepped,
                   ingested, pipeline_runs, cvars, mvars>>

\* Lines 222-233: run the pipeline on what arrived, or report the timeout.
AfterWait ==
    /\ pc = "after"
    /\ IF HasExposures(expid_set)
       THEN /\ pipeline_runs' = Append(pipeline_runs, Members(expid_set))
            /\ \/ Exit(Return("Pipeline executed", 200))
               \/ Exit(Raise("run_pipeline"))
       ELSE /\ Exit(Return("Timed out waiting for images", 500))
            /\ UNCHANGED pipeline_runs
    /\ UNCHANGED <<active_instrument, timeout, request, bucket, subscription, expid_set,
                   scan_snap, elapsed, received, batch, idx, ack_list, outstanding, wait_exit,
                   response, prepped, ingested, cvars, mvars>>

\* Lines 234-235 and 238-247: the finally clause, then the response.
Finally ==
    /\ pc = "finally"
    /\ subscription' = DeleteSubscription(subscription, outcome)
    /\ response' = IF outcome.kind = "return"
                   THEN [msg |-> outcome.msg, status |-> outcome.status]
                   ELSE server_error(outcome.msg)
    /\ pc' = "done"
    /\ UNCHANGED <<active_instrument, timeout, request, bucket, expid_set, scan_snap,
                   elapsed, received, batch, idx, ack_list, outstanding, wait_exit, outcome,
                   prepped, ingested, pipeline_runs, cvars, mvars>>

Next ==
    \/ TokenCheck
    \/ ParseEnvelope
    \/ PrepButler
    \/ ScanSnap
    \/ ExitComplete
    \/ Pull
    \/ CheckEmpty
    \/ ProcessMessage
    \/ Acknowledge
    \/ AfterWait
    \/ Finally

Spec == Init /\ [][Next]_vars

\* The handler is one sequential flow of control: it always takes its next
\* step, and every pull returns within its own timeout.
\* Time passes: of the pulls that are made, some return later than the one before.
PullLater == Pull /\ elapsed' > elapsed
FairSpec == Init /\ [][Next]_vars /\ WF_vars(Next) /\ SF_vars(PullLater)

(***************************************************************************)
(* SpecConfig: a PipelinesConfig is constructed from a config and asked    *)
(* for the pipelines of a visit.                                           *)
(***************************************************************************)
HandlerIdle ==
    /\ active_instrument = "HSC"
    /\ timeout = [isStr |-> FALSE, val |-> 1]
    /\ request = [token_ok |-> FALSE, envelope |-> "empty",
                  visit |-> [instrument |-> "HSC", detector |-> 1, group |-> 7, snaps |-> 1]]
    /\ bucket = {}
    /\ pc = "idle"
    /\ subscription = "none"
    /\ expid_set = EmptyExpidSet
    /\ scan_snap = 0
    /\ elapsed = 0
    /\ received = 0
    /\ batch = <<>>
    /\ idx = 0
    /\ ack_list = <<>>
    /\ outstanding = {}
    /\ wait_exit = "none"
    /\ outcome = NoOutcome
    /\ response = NoResponse
    /\ prepped = FALSE
    /\ ingested = [o \in Oids |-> 0]
    /\ pipeline_runs = <<>>

InitConfig ==
    /\ HandlerIdle
    /\ MwiIdle
    /\ cfg_nodes \in SeqsUpTo(ConfigNodes, MaxNodes)
    /\ cfg_survey \in Surveys \cup {"other"}
    /\ cfg_state = "new"
    /\ cfg_specs = <<>>
    /\ cfg_result = <<"none">>

\* PipelinesConfig(config)
Construct ==
    /\ cfg_state = "new"
    /\ LET r == PipelinesConfigInit(cfg_nodes)
       IN  IF r[1] = "ok"
           THEN cfg_state' = "built" /\ cfg_specs' = r[2]
           ELSE cfg_state' = r[1] /\ UNCHANGED cfg_specs
    /\ UNCHANGED <<cfg_nodes, cfg_survey, cfg_result, hvars, mvars>>

\* config.get_pipeline_files(visit)
GetPipelineFiles ==
    /\ cfg_state = "built"
    /\ cfg_result = <<"none">>
    /\ cfg_result' = get_pipeline_files(cfg_specs, cfg_survey)
    /\ UNCHANGED <<cfg_nodes, cfg_state, cfg_specs, cfg_survey, hvars, mvars>>

NextConfig ==
    \/ Construct
    \/ GetPipelineFiles

SpecConfig == InitConfig /\ [][NextConfig]_vars

(***************************************************************************)
(* middleware_interface.py: MiddlewareInterface.run_pipeline               *)
(* SpecPipeline: one call of run_pipeline(exposure_ids) against a local    *)
(* repo, with the visit definer and the pipeline executor as environment.  *)
(***************************************************************************)
ExposureIds == {1, 2}

\* self.define_visits.run(...): the visit definer expands the data id of each
\* exposure and fails with DataIdError for an exposure the repo has no record of.
define_visits_lenient(exposure_ids, known) == "ok"
define_visits(exposure_ids, known) ==
    IF exposure_ids \subseteq known THEN "ok" ELSE "DataIdError"

\* _get_pipeline_file / _prep_pipeline: the one pipeline file of the
\* instrument, ApPipe.yaml, which is the first candidate.
prep_pipeline == 1

\* executor.make_quantum_graph(pipeline, where=where), by its size
make_quantum_graph(graphs, pipeline) == graphs[pipeline]

\* if len(qgraph) == 0
NeverEmpty(qgraph) == FALSE
IsEmptyGraph(qgraph) == qgraph = 0

InitPipeline ==
    /\ SidecarIdle
    /\ ExportIdle
    /\ RaceIdle
    /\ PathIdle
    /\ RepoIdle
    /\ ChainIdle
    /\ CalibsIdle
    /\ PrepIdle
    /\ HandlerIdle
    /\ ConfigIdle
    /\ OutputRunIdle
    /\ FilterIdle
    /\ rp_exposure_ids \in (SUBSET ExposureIds) \ {{}}
    /\ rp_ingested \in SUBSET ExposureIds
    /\ rp_graphs \in SeqsUpTo(0..MaxQuanta, MaxCandidates) \ {<<>>}
    /\ rp_pc = "start"
    /\ rp_qgraph = 0
    /\ rp_graph_calls = <<>>
    /\ rp_preexec_calls = <<>>
    /\ rp_run_calls = <<>>
    /\ rp_error = ""

\* Lines 734-739: define the visits; DataIdError becomes RuntimeError.
DefineVisits ==
    /\ rp_pc = "start"
    /\ IF define_visits(rp_exposure_ids, rp_ingested) = "ok"
       THEN rp_pc' = "visits_defined" /\ UNCHANGED rp_error
       ELSE rp_pc' = "raised" /\ rp_error' = "No data to process."
    /\ UNCHANGED <<rp_exposure_ids, rp_ingested, rp_graphs, rp_qgraph, rp_graph_calls,
                   rp_preexec_calls, rp_run_calls, NotPipeline>>

\* Lines 741-751: the pipeline, its quantum graph, and the test for an empty graph.
MakeQuantumGraph ==
    /\ rp_pc = "visits_defined"
    /\ LET pipeline == prep_pipeline
           qgraph == make_quantum_graph(rp_graphs, pipeline)
       IN  /\ rp_graph_calls' = Append(rp_graph_calls, pipeline)
           /\ rp_qgraph' = qgraph
           /\ IF IsEmptyGraph(qgraph)
              THEN rp_pc' = "raised" /\ rp_error' = "No data to process."
              ELSE rp_pc' = "graph_made" /\ UNCHANGED rp_error
    /\ UNCHANGED <<rp_exposure_ids, rp_ingested, rp_graphs, rp_preexec_calls,
                   rp_run_calls, NotPipeline>>

\* Line 755: executor.pre_execute_qgraph(qgraph, ...), which may raise.
PreExecute ==
    /\ rp_pc = "graph_made"
    /\ rp_preexec_calls' = Append(rp_preexec_calls, prep_pipeline)
    /\ \/ rp_pc' = "pre_executed" /\ UNCHANGED rp_error
       \/ rp_pc' = "raised" /\ rp_error' = "pre_execute_qgraph"
    /\ UNCHANGED <<rp_exposure_ids, rp_ingested, rp_graphs, rp_qgraph, rp_graph_calls,
                   rp_run_calls, NotPipeline>>

\* Line 757: executor.run_pipeline(qgraph), which may raise.
ExecutePipeline ==
    /\ rp_pc = "pre_executed"
    /\ rp_run_calls' = Append(rp_run_calls, prep_pipeline)
    /\ \/ rp_pc' = "done" /\ UNCHANGED rp_error
       \/ rp_pc' = "raised" /\ rp_error' = "run_pipeline"
    /\ UNCHANGED <<rp_exposure_ids, rp_ingested, rp_graphs, rp_qgraph, rp_graph_calls,
                   rp_preexec_calls, NotPipeline>>

NextPipeline ==
    \/ DefineVisits
    \/ MakeQuantumGraph
    \/ PreExecute
    \/ ExecutePipeline

SpecPipeline == InitPipeline /\ [][NextPipeline]_vars

(***************************************************************************)
(* middleware_interface.py: the output run of a MiddlewareInterface        *)
(* SpecOutputRun: MiddlewareInterface objects are made one after the other *)
(* on the same local repo, each at its own time and in its own deployment. *)
(***************************************************************************)
\* Readings of the clock, in UTC.
Clock == [year : {2023}, month : {3}, day : {1, 14, 15}, hour : {5, 20}]
Earlier(a, b) ==
    \/ a.day < b.day
    \/ a.day = b.day /\ a.hour <= b.hour

\* os.environ at the construction: K_REVISION, and the installed packages
\* that stand in for it outside a container.
Environments ==
    { [K_REVISION |-> "prompt-proto-service-042", packages |-> "w_2023_10"],
      [K_REVISION |-> "prompt-proto-service-043", packages |-> "w_2023_10"],
      [K_REVISION |-> "", packages |-> "w_2023_10"] }

\* hashlib.md5 over the packages and their versions, as a hex digest
md5(packages) == IF packages = "w_2023_10" THEN "5f3a" ELSE "9c1e"

\* _get_deployment
get_deployment(env) ==
    IF env.K_REVISION # "" THEN env.K_REVISION ELSE "local-" \o md5(env.packages)

\* datetime.datetime.now(_DAY_OBS_TZ): the clock twelve hours behind UTC
DaysIn(month) ==
    CASE month = 2 -> 28
      [] month \in {4, 6, 9, 11} -> 30
      [] OTHER -> 31
PreviousDay(d) ==
    IF d.day > 1 THEN [d EXCEPT !.day = @ - 1]
    ELSE IF d.month > 1 THEN [d EXCEPT !.month = @ - 1, !.day = DaysIn(d.month - 1)]
    ELSE [d EXCEPT !.year = @ - 1, !.month = 12, !.day = 31]
DAY_OBS_TZ(utc) ==
    IF utc.hour >= 12 THEN [utc EXCEPT !.hour = @ - 12]
    ELSE [PreviousDay(utc) EXCEPT !.hour = utc.hour + 12]

\* f"{date:%Y-%m-%d}"
Pad2(n) == IF n < 10 THEN "0" \o ToString(n) ELSE ToString(n)
strftime(date) == ToString(date.year) \o "-" \o Pad2(date.month) \o "-" \o Pad2(date.day)

\* _get_pipeline_file
get_pipeline_file(instrument) == Path("prompt_prototype/pipelines/" \o instrument, "ApPipe", ".yaml")

\* Instrument.makeCollectionName(*labels)
makeCollectionName(instrument, labels) ==
    LET RECURSIVE join(_)
        join(l) == IF l = <<>> THEN "" ELSE "/" \o Head(l) \o join(Tail(l))
    IN  instrument \o join(labels)

\* _get_output_run(date=None) and _get_init_output_run(date=None)
get_output_run_utc(instrument, deployment, now) ==
    makeCollectionName(instrument,
        <<"prompt", "output-" \o strftime(now),
          splitext0(basename(get_pipeline_file(instrument))), deployment>>)
get_output_run(instrument, deployment, now) ==
    LET date == DAY_OBS_TZ(now)
        pipeline_name == splitext0(basename(get_pipeline_file(instrument)))
    IN  makeCollectionName(instrument,
            <<"prompt", "output-" \o strftime(date), pipeline_name, deployment>>)
get_init_output_run(instrument, deployment, now) == get_output_run(instrument, deployment, now)

InitOutputRun ==
    /\ SidecarIdle
    /\ ExportIdle
    /\ RaceIdle
    /\ PathIdle
    /\ RepoIdle
    /\ ChainIdle
    /\ CalibsIdle
    /\ PrepIdle
    /\ HandlerIdle
    /\ ConfigIdle
    /\ RunPipelineIdle
    /\ FilterIdle
    /\ or_instrument \in Instruments
    /\ or_now = [year |-> 2023, month |-> 3, day |-> 1, hour |-> 5]
    /\ or_attempts = <<>>
    /\ or_runs = {}

\* MiddlewareInterface.__init__ (lines 207-226): the deployment, the run
\* names, and _prep_collections, which registers both runs.
ConstructInterface ==
    /\ Len(or_attempts) < MaxAttempts
    /\ \E now \in Clock, env \in Environments :
          /\ Earlier(or_now, now)
          /\ or_now' = now
          /\ LET deployment == get_deployment(env)
                 init_output_run == get_init_output_run(or_instrument, deployment, now)
                 output_run == get_output_run(or_instrument, deployment, now)
             IN  /\ or_attempts' = Append(or_attempts,
                        [now |-> now, deployment |-> deployment,
                         output_run |-> output_run, init_output_run |-> init_output_run])
                 /\ or_runs' = or_runs \cup {init_output_run, output_run}
    /\ UNCHANGED <<or_instrument, NotOutputRun>>

NextOutputRun ==
    \/ ConstructInterface

SpecOutputRun == InitOutputRun /\ [][NextOutputRun]_vars

(***************************************************************************)
(* middleware_interface.py: _filter_datasets                               *)
(* SpecFilter: one call _filter_datasets(src_repo, dest_repo, query).      *)
(***************************************************************************)
\* Dataset references: dataset type and data id (the detector).
DatasetRefs == [type : {"cpBias", "cpFlat"}, detector : {5, 25}]
Queries == {"cpBias", "cpFlat"}
QueryErrors == {"", "DataIdValueError", "OtherError"}

\* repo.registry.queryDatasets(*args, **kwargs)
queryDatasets(repo, query) == {ref \in repo : ref.type = query}

\* except lsst.daf.butler.registry.DataIdValueError
catches_nothing(error) == FALSE
catches(error) == error = "DataIdValueError"

\* if not src_datasets
NeverMissing(src_datasets) == FALSE
NoMatches(src_datasets) == src_datasets = {}

\* itertools.filterfalse(lambda ref: ref in known_datasets, src_datasets)
keep_all(known_datasets, src_datasets) == src_datasets
filterfalse(known_datasets, src_datasets) ==
    {ref \in src_datasets : ~(ref \in known_datasets)}

InitFilter ==
    /\ SidecarIdle
    /\ ExportIdle
    /\ RaceIdle
    /\ PathIdle
    /\ RepoIdle
    /\ ChainIdle
    /\ CalibsIdle
    /\ PrepIdle
    /\ HandlerIdle
    /\ ConfigIdle
    /\ RunPipelineIdle
    /\ OutputRunIdle
    /\ fd_src \in SUBSET DatasetRefs
    /\ fd_dest \in SUBSET DatasetRefs
    /\ fd_query \in Queries
    /\ fd_src_error \in QueryErrors
    /\ fd_dest_error \in QueryErrors
    \* a repo that does not know the dimension values of the query holds
    \* no dataset with them
    /\ fd_dest_error = "DataIdValueError" => queryDatasets(fd_dest, fd_query) = {}
    /\ fd_src_error = "DataIdValueError" => queryDatasets(fd_src, fd_query) = {}
    /\ fd_pc = "start"
    /\ fd_known_datasets = {}
    /\ fd_src_datasets = {}
    /\ fd_calls = <<>>
    /\ fd_result = {}
    /\ fd_error = ""

\* Lines 918-926: the query of dest_repo.
QueryDest ==
    /\ fd_pc = "start"
    /\ fd_calls' = Append(fd_calls, [repo |-> "dest", query |-> fd_query])
    /\ IF fd_dest_error = ""
       THEN /\ fd_known_datasets' = queryDatasets(fd_dest, fd_query)
            /\ fd_pc' = "dest_queried"
            /\ UNCHANGED fd_error
       ELSE IF catches(fd_dest_error)
       THEN /\ fd_known_datasets' = {}
            /\ fd_pc' = "dest_queried"
            /\ UNCHANGED fd_error
       ELSE /\ fd_pc' = "raised"
            /\ fd_error' = fd_dest_error
            /\ UNCHANGED fd_known_datasets
    /\ UNCHANGED <<fd_src, fd_dest, fd_query, fd_src_error, fd_dest_error,
                   fd_src_datasets, fd_result, NotFilter>>

\* Lines 928-937: the query of src_repo and the test for no match.
QuerySrc ==
    /\ fd_pc = "dest_queried"
    /\ fd_calls' = Append(fd_calls, [repo |-> "src", query |-> fd_query])
    /\ IF fd_src_error # ""
       THEN /\ fd_pc' = "raised"
            /\ fd_error' = fd_src_error
            /\ UNCHANGED fd_src_datasets
       ELSE LET src_datasets == queryDatasets(fd_src, fd_query)
            IN  /\ fd_src_datasets' = src_datasets
                /\ IF NoMatches(src_datasets)
                   THEN fd_pc' = "raised" /\ fd_error' = "_MissingDatasetError"
                   ELSE fd_pc' = "src_queried" /\ UNCHANGED fd_error
    /\ UNCHANGED <<fd_src, fd_dest, fd_query, fd_src_error, fd_dest_error,
                   fd_known_datasets, fd_result, NotFilter>>

\* Line 938: the datasets of the source that the destination does not have.
ReturnFiltered ==
    /\ fd_pc = "src_queried"
    /\ fd_result' = filterfalse(fd_known_datasets, fd_src_datasets)
    /\ fd_pc' = "returned"
    /\ UNCHANGED <<fd_src, fd_dest, fd_query, fd_src_error, fd_dest_error,
                   fd_known_datasets, fd_src_datasets, fd_calls, fd_error, NotFilter>>

NextFilter ==
    \/ QueryDest
    \/ QuerySrc
    \/ ReturnFiltered

SpecFilter == InitFilter /\ [][NextFilter]_vars

(***************************************************************************)
(* middleware_interface.py: prep_butler                                    *)
(* SpecPrep: prep_butler calls, one after the other, of MiddlewareInterface *)
(* objects that share one local repo and one central repo.                 *)
(***************************************************************************)
MaxPreps == 3

Detectors == {5, 56}
\* htm7 shards and patches that the detector's bounding circle overlaps.
Shards(detector) == IF detector = 56 THEN {1, 2} ELSE {2, 3}
Patches(detector) == {7, 8}

\* The datasets a central repo may hold: refcat shards, the skymap, template
\* patches, and calibs by detector.
RepoDatasets ==
    [type : {"gaia"}, dataId : {1, 2, 3}]
        \cup [type : {"skyMap"}, dataId : {0}]
        \cup [type : {"goodSeeingCoadd"}, dataId : {7, 8}]
        \cup [type : {"cpBias", "cpFlat"}, dataId : Detectors]

Umbrella == "DECam/defaults"
TemplateCollection == "DECam/templates"
\* central_butler.registry.queryCollections(collection, flattenChains=True,
\* includeChains=True)
CentralChain == <<"DECam/calib", "refcats", "skymaps">>
queryCollections(collection) ==
    IF collection = Umbrella
    THEN {Umbrella} \cup {CentralChain[i] : i \in DOMAIN CentralChain}
    ELSE {collection}

\* The queries of _export_refcats, _export_skymap_and_templates and
\* _export_calibs.
QueryRefcats(repo, visit) ==
    {ref \in repo : ref.type = "gaia" /\ ref.dataId \in Shards(visit.detector)}
QuerySkymaps(repo) == {ref \in repo : ref.type = "skyMap"}
QueryTemplates(repo, visit) ==
    {ref \in repo : ref.type = "goodSeeingCoadd" /\ ref.dataId \in Patches(visit.detector)}
QueryCalibsAnyDetector(repo, visit) ==
    {ref \in repo : ref.type \in {"cpBias", "cpFlat"}}
QueryCalibs(repo, visit) ==
    {ref \in repo : ref.type \in {"cpBias", "cpFlat"} /\ ref.dataId = visit.detector}

\* _filter_datasets as one call: the error it ends with and what it returns.
filter_datasets(src_datasets, dest_datasets, dest_error) ==
    IF dest_error # "" /\ ~catches(dest_error)
    THEN [error |-> dest_error, datasets |-> {}]
    ELSE IF NoMatches(src_datasets)
    THEN [error |-> "_MissingDatasetError", datasets |-> {}]
    ELSE [error |-> "",
          datasets |-> filterfalse(IF dest_error = "" THEN dest_datasets ELSE {},
                                   src_datasets)]

\* A query with skymap=... of a repo without the skymap dimension record.
SkymapQueryError(skymap_dim) == IF skymap_dim THEN "" ELSE "DataIdValueError"

\* except _MissingDatasetError as err: _log.error(err)
tolerates_nothing(error) == FALSE
tolerates(error) == error = "_MissingDatasetError"

\* self.butler.import_(...)
import_replacing(local, export) == export
import_(local, export) == local \cup export

InitPrep ==
    /\ SidecarIdle
    /\ ExportIdle
    /\ RaceIdle
    /\ PathIdle
    /\ RepoIdle
    /\ ChainIdle
    /\ CalibsIdle
    /\ HandlerIdle
    /\ ConfigIdle
    /\ RunPipelineIdle
    /\ OutputRunIdle
    /\ FilterIdle
    /\ pb_central \in SUBSET RepoDatasets
    \* make_local_repo: an empty repo with the umbrella chain registered
    /\ pb_local = {}
    /\ pb_skymap_dim = FALSE
    /\ pb_collections = {Umbrella}
    /\ pb_chain = <<>>
    /\ pb_visit = [detector |-> 0, groupId |-> 0]
    /\ pb_pc = "ready"
    /\ pb_export = {}
    /\ pb_export_coll = {}
    /\ pb_log = <<>>
    /\ pb_before = [datasets |-> {}, collections |-> {}, chain |-> <<>>]
    /\ pb_history = <<>>

\* The record of a finished call.
PrepRecord(error, after, collections) ==
    [visit |-> pb_visit, before |-> pb_before.datasets, after |-> after, error |-> error,
     log |-> pb_log, collections |-> collections]

\* An exception leaves the export context (line 388) or import_: the export
\* file is dropped with what it holds.
PrepRaisesMerging(error) ==
    /\ pb_pc' = "raised"
    /\ pb_local' = pb_local \cup pb_export
    /\ pb_collections' = pb_collections \cup pb_export_coll
    /\ pb_history' = Append(pb_history, PrepRecord(error, pb_local', pb_collections'))
    /\ UNCHANGED <<pb_skymap_dim, pb_chain, pb_export, pb_export_coll, pb_log>>
PrepRaises(error) ==
    /\ pb_pc' = "raised"
    /\ pb_history' = Append(pb_history, PrepRecord(error, pb_local, pb_collections))
    /\ UNCHANGED <<pb_local, pb_skymap_dim, pb_collections, pb_chain,
                   pb_export, pb_export_coll, pb_log>>

\* Lines 367-385: a new MiddlewareInterface on the same repos calls
\* prep_butler for its visit.
StartPrep ==
    /\ pb_pc \in {"ready", "done", "raised"}
    /\ Len(pb_history) < MaxPreps
    /\ \E detector \in Detectors :
         pb_visit' = [detector |-> detector, groupId |-> Len(pb_history) + 1]
    /\ pb_before' = [datasets |-> pb_local, collections |-> pb_collections,
                     chain |-> pb_chain]
    /\ pb_export' = {}
    /\ pb_export_coll' = {}
    /\ pb_log' = <<>>
    /\ pb_pc' = "refcats"
    /\ UNCHANGED <<pb_central, pb_local, pb_skymap_dim, pb_collections, pb_chain,
                   pb_history, NotPrep>>

\* Lines 409-438.
ExportRefcats ==
    /\ pb_pc = "refcats"
    /\ LET refcats == filter_datasets(QueryRefcats(pb_central, pb_visit),
                                      QueryRefcats(pb_local, pb_visit), "")
       IN  IF refcats.error # ""
           THEN PrepRaises(refcats.error)
           ELSE /\ pb_export' = pb_export \cup refcats.datasets
                /\ pb_pc' = "skymap"
                /\ UNCHANGED <<pb_export_coll, pb_log, pb_history,
                               pb_local, pb_skymap_dim, pb_collections, pb_chain>>
    /\ UNCHANGED <<pb_central, pb_visit, pb_before, NotPrep>>

\* Lines 440-496.
ExportSkymapAndTemplates ==
    /\ pb_pc = "skymap"
    /\ LET skymaps == filter_datasets(QuerySkymaps(pb_central), QuerySkymaps(pb_local),
                                      SkymapQueryError(pb_skymap_dim))
           templates == filter_datasets(QueryTemplates(pb_central, pb_visit),
                                        QueryTemplates(pb_local, pb_visit),
                                        SkymapQueryError(pb_skymap_dim))
       IN  IF skymaps.error # ""
           THEN PrepRaises(skymaps.error)
           ELSE IF templates.error # "" /\ ~tolerates(templates.error)
           THEN PrepRaises(templates.error)
           ELSE /\ IF templates.error # ""
                   THEN /\ pb_log' = Append(pb_log, templates.error)
                        /\ pb_export' = pb_export \cup skymaps.datasets
                   ELSE /\ pb_export' = pb_export \cup skymaps.datasets
                                            \cup templates.datasets
                        /\ UNCHANGED pb_log
                /\ pb_export_coll' = pb_export_coll \cup queryCollections(TemplateCollection)
                /\ pb_pc' = "calibs"
                /\ UNCHANGED <<pb_history, pb_local, pb_skymap_dim, pb_collections, pb_chain>>
    /\ UNCHANGED <<pb_central, pb_visit, pb_before, NotPrep>>

\* Lines 498-528.
ExportCalibs ==
    /\ pb_pc = "calibs"
    /\ LET calibs == filter_datasets(QueryCalibs(pb_central, pb_visit),
                                     QueryCalibs(pb_local, pb_visit), "")
       IN  IF calibs.error # ""
           THEN PrepRaises(calibs.error)
           ELSE /\ pb_export' = pb_export \cup calibs.datasets
                /\ pb_pc' = "collections"
                /\ UNCHANGED <<pb_export_coll, pb_log, pb_history,
                               pb_local, pb_skymap_dim, pb_collections, pb_chain>>
    /\ UNCHANGED <<pb_central, pb_visit, pb_before, NotPrep>>

\* Lines 390 and 530-546.
ExportCollections ==
    /\ pb_pc = "collections"
    /\ pb_export_coll' = pb_export_coll \cup queryCollections(Umbrella)
    /\ pb_pc' = "import"
    /\ UNCHANGED <<pb_central, pb_local, pb_skymap_dim, pb_collections, pb_chain,
                   pb_visit, pb_export, pb_log, pb_before, pb_history, NotPrep>>

\* Lines 392-394: the exported datasets, their dimension records and the
\* exported collections enter the local repo; a dataset that the local repo
\* already has cannot be imported.
Import ==
    /\ pb_pc = "import"
    /\ IF pb_export \cap pb_local # {}
       THEN PrepRaises("ConflictingDefinitionError")
       ELSE /\ pb_local' = import_(pb_local, pb_export)
            /\ pb_skymap_dim' =
                  (pb_skymap_dim
                      \/ \E ref \in pb_export : ref.type \in {"skyMap", "goodSeeingCoadd"})
            /\ pb_collections' = pb_collections \cup pb_export_coll
            /\ pb_chain' = CentralChain
            /\ pb_pc' = "prepend"
            /\ UNCHANGED <<pb_export, pb_export_coll, pb_log, pb_history>>
    /\ UNCHANGED <<pb_central, pb_visit, pb_before, NotPrep>>

\* Lines 398-402 and 941-958: _prepend_collection.
PrependCollection ==
    /\ pb_pc = "prepend"
    /\ pb_chain' = <<TemplateCollection>> \o pb_chain
    /\ pb_pc' = "done"
    /\ pb_history' = Append(pb_history, PrepRecord("", pb_local, pb_collections))
    /\ UNCHANGED <<pb_central, pb_local, pb_skymap_dim, pb_collections, pb_visit,
                   pb_export, pb_export_coll, pb_log, pb_before, NotPrep>>

NextPrep ==
    \/ StartPrep
    \/ ExportRefcats
    \/ ExportSkymapAndTemplates
    \/ ExportCalibs
    \/ ExportCollections
    \/ Import
    \/ PrependCollection

SpecPrep == InitPrep /\ [][NextPrep]_vars

(***************************************************************************)
(* middleware_interface.py: _export_calibs with certified calibs           *)
(* SpecCalibs: one call of _export_calibs on a fresh local repo, the       *)
(* central calibs carrying the validity range they are certified for.      *)
(***************************************************************************)
\* Dates are yyyymmdd; a validity range is [begin, end).
EarlyRange == [begin |-> 20150218, end |-> 20150313]
LateRange == [begin |-> 20150313, end |-> 20160101]
Unbounded == [begin |-> 0, end |-> 99999999]
VisitDates == {20150220, 20150316, 20500101}

CertifiedCalibs ==
    [type : {"cpBias"}, dataId : Detectors, validity : {EarlyRange, LateRange}]
        \cup [type : {"cpFlat"}, dataId : Detectors, validity : {Unbounded}]

InitCalibs ==
    /\ SidecarIdle
    /\ ExportIdle
    /\ RaceIdle
    /\ PathIdle
    /\ RepoIdle
    /\ ChainIdle
    /\ HandlerIdle
    /\ ConfigIdle
    /\ RunPipelineIdle
    /\ OutputRunIdle
    /\ FilterIdle
    /\ PrepIdle
    /\ ec_central \in SUBSET CertifiedCalibs
    /\ ec_visit \in [detector : Detectors, date : VisitDates]
    /\ ec_pc = "start"
    /\ ec_export = {}
    /\ ec_error = ""

\* Lines 498-528: calib_where names the detector and the physical filter,
\* and nothing of the visit's date.
SaveCalibs ==
    /\ ec_pc = "start"
    /\ LET calibs == filter_datasets(QueryCalibs(ec_central, ec_visit), {}, "")
       IN  IF calibs.error # ""
           THEN /\ ec_pc' = "raised"
                /\ ec_error' = calibs.error
                /\ UNCHANGED ec_export
           ELSE /\ ec_export' = calibs.datasets
                /\ ec_pc' = "saved"
                /\ UNCHANGED ec_error
    /\ UNCHANGED <<ec_central, ec_visit, NotCalibs>>

NextCalibs == SaveCalibs

SpecCalibs == InitCalibs /\ [][NextCalibs]_vars

(***************************************************************************)
(* middleware_interface.py: _prepend_collection and _remove_from_chain     *)
(* SpecChain: one call of either helper on a chain of the registry.        *)
(***************************************************************************)
MaxChain == 2

ChainMembers == {"_prepend1", "_prepend2", "_prepend3"}
NoDuplicates(seq) == \A i, j \in DOMAIN seq : seq[i] = seq[j] => i = j

\* Keeps the first occurrence of every member.
RECURSIVE Dedup(_)
Dedup(seq) ==
    IF seq = <<>> THEN <<>>
    ELSE LET front == Dedup(SubSeq(seq, 1, Len(seq) - 1))
             last == seq[Len(seq)]
         IN  IF last \in Range(front) THEN front ELSE Append(front, last)

\* registry.setCollectionChain(chain, children, flatten=False): what the
\* registry then holds.  A child named twice is kept once, at its first
\* position: "this moves output_run to the front of the chain if it's
\* already present" (lines 621-622).
keep_duplicates(children) == children
setCollectionChain(children) == Dedup(children)

\* list(new_collections) + list(old_chain)
append_collection(old_chain, new_collections) == old_chain \o new_collections
replace_chain(old_chain, new_collections) == new_collections
prepend_collection(old_chain, new_collections) == new_collections \o old_chain

\* contents.remove(old): the first occurrence goes.
RECURSIVE list_remove(_, _)
list_remove(contents, old) ==
    IF contents = <<>> THEN <<>>
    ELSE IF Head(contents) = old THEN Tail(contents)
    ELSE <<Head(contents)>> \o list_remove(Tail(contents), old)

\* for old in set(old_collections).intersection(contents): contents.remove(old)
RECURSIVE remove_all(_, _)
remove_all(contents, olds) ==
    IF olds = {} THEN contents
    ELSE LET old == CHOOSE o \in olds : TRUE
         IN  remove_all(list_remove(contents, old), olds \ {old})
remove_from_chain(contents, old_collections) ==
    remove_all(contents, Range(old_collections) \cap Range(contents))

InitChain ==
    /\ SidecarIdle
    /\ ExportIdle
    /\ RaceIdle
    /\ PathIdle
    /\ RepoIdle
    /\ HandlerIdle
    /\ ConfigIdle
    /\ RunPipelineIdle
    /\ OutputRunIdle
    /\ FilterIdle
    /\ PrepIdle
    /\ CalibsIdle
    /\ ch_chain \in {c \in SeqsUpTo(ChainMembers, MaxChain) : NoDuplicates(c)}
    /\ ch_arg \in SeqsUpTo(ChainMembers, MaxChain)
    /\ ch_old = <<>>
    /\ ch_pc = "start"

\* Lines 941-958.
PrependCollectionCall ==
    /\ ch_pc = "start"
    /\ ch_old' = ch_chain
    /\ ch_chain' = setCollectionChain(prepend_collection(ch_chain, ch_arg))
    /\ ch_pc' = "prepended"
    /\ UNCHANGED <<ch_arg, NotChain>>

\* Lines 961-982.
RemoveFromChainCall ==
    /\ ch_pc = "start"
    /\ ch_old' = ch_chain
    /\ ch_chain' = setCollectionChain(remove_from_chain(ch_chain, ch_arg))
    /\ ch_pc' = "removed"
    /\ UNCHANGED <<ch_arg, NotChain>>

NextChain ==
    \/ PrependCollectionCall
    \/ RemoveFromChainCall

SpecChain == InitChain /\ [][NextChain]_vars

(***************************************************************************)
(* SpecRace: two callers of _prepend_collection on one chain.  The read of *)
(* the chain and its write are two calls of the registry.                  *)
(***************************************************************************)
Callers == {1, 2}
Other(w) == 3 - w
InputCollections == {"DECam/defaults", "DECam/raw/all", "old_run"}

InitRace ==
    /\ SidecarIdle
    /\ ExportIdle
    /\ HandlerIdle
    /\ ConfigIdle
    /\ RunPipelineIdle
    /\ OutputRunIdle
    /\ FilterIdle
    /\ PrepIdle
    /\ CalibsIdle
    /\ ChainIdle
    /\ RepoIdle
    /\ PathIdle
    /\ cc_chain \in {c \in SeqsUpTo(InputCollections, MaxChain) : NoDuplicates(c)}
    /\ cc_new \in {<<<<"run1", "init1">>, n>> : n \in {<<"run2", "init2">>, <<"run2">>}}
    /\ cc_old = <<<<>>, <<>>>>
    /\ cc_pc = <<"start", "start">>
    /\ cc_overlap = FALSE

\* Line 957: old_chain = butler.registry.getCollectionChain(chain)
GetCollectionChain(w) ==
    /\ cc_pc[w] = "start"
    /\ cc_old' = [cc_old EXCEPT ![w] = cc_chain]
    /\ cc_pc' = [cc_pc EXCEPT ![w] = "read"]
    /\ cc_overlap' = (cc_overlap \/ cc_pc[Other(w)] = "read")
    /\ UNCHANGED <<cc_chain, cc_new, NotRace>>

\* Line 958: butler.registry.setCollectionChain(chain, new + old)
SetCollectionChain(w) ==
    /\ cc_pc[w] = "read"
    /\ cc_chain' = setCollectionChain(prepend_collection(cc_old[w], cc_new[w]))
    /\ cc_pc' = [cc_pc EXCEPT ![w] = "done"]
    /\ UNCHANGED <<cc_new, cc_old, cc_overlap, NotRace>>

NextRace ==
    \/ \E w \in Callers : GetCollectionChain(w)
    \/ \E w \in Callers : SetCollectionChain(w)

SpecRace == InitRace /\ [][NextRace]_vars

(***************************************************************************)
(* middleware_interface.py: ingest_image, run_pipeline, export_outputs,    *)
(* clean_local_repo                                                        *)
(* SpecRepo: the calls of MiddlewareInterface objects for detector 56 on   *)
(* one local repo and one central repo.                                    *)
(***************************************************************************)
MaxCalls == 5

VisitDetector == 56
Exposures == {1, 2}

RawRun == "DECam/raw/all"
OutputRunName == "DECam/prompt/output-2023-03-14/ApPipe/prompt-proto-service-042"
\* The output run of the MiddlewareInterface objects of the day before.
PreviousRunName == "DECam/prompt/output-2023-03-13/ApPipe/prompt-proto-service-042"
CalibRun == "DECam/calib"
PromptChain == "DECam/prompt"
GenericChain == "generic-chain"

\* A dataset: type, RUN collection, and data id (0 where the dataset type
\* does not have the dimension).
Dataset(type, run, detector, exposure) ==
    [type |-> type, run |-> run, detector |-> detector, exposure |-> exposure]
DatasetTypes == {"raw", "calexp", "isr_config", "cpBias"}
DetectorTypes == {"raw", "calexp", "cpBias"}

\* The calibs of the central repo.
CentralInputs == {Dataset("cpBias", CalibRun, d, 0) : d \in Detectors}
\* What another MiddlewareInterface may have left in the local repo.
OtherDetectorDatasets ==
    {Dataset("raw", RawRun, 5, 1), Dataset("calexp", OutputRunName, 5, 1)}

\* Lines 778-800: _get_safe_dataset_types.
get_safe_dataset_types == {dstype \in DatasetTypes : dstype \in DetectorTypes}

\* Lines 821-833: the query of _export_subset.
subset_query_any_detector(local, dataset_types, in_collections, exposure_ids, detector) ==
    {ref \in local : /\ ref.type \in dataset_types
                     /\ ref.run = in_collections
                     /\ ref.exposure \in exposure_ids}
subset_query(local, dataset_types, in_collections, exposure_ids, detector) ==
    {ref \in local : /\ ref.type \in dataset_types
                     /\ ref.run = in_collections
                     /\ ref.exposure \in exposure_ids
                     /\ ref.detector = detector}

\* Line 836: if not datasets
AlwaysSomeDatasets(datasets) == FALSE
NoDatasets(datasets) == datasets = {}

\* Lines 848-855: central_butler.import_ of the exported datasets; each
\* keeps its RUN collection.
import_into_defaults(central, datasets) ==
    central \cup {[ref EXCEPT !.run = CalibRun] : ref \in datasets}
import_replacing_run(central, datasets) ==
    {ref \in central : ref.run \notin {d.run : d \in datasets}} \cup datasets
import_into_central(central, datasets) == central \cup datasets

\* Lines 802-855: _export_subset.  A dataset that the central repo already
\* has cannot be imported.
export_subset(local, central, exposure_ids, dataset_types, in_collections) ==
    LET datasets == subset_query(local, dataset_types, in_collections,
                                 exposure_ids, VisitDetector)
    IN  IF NoDatasets(datasets)
        THEN [error |-> "ValueError", central |-> central, transferred |-> {}]
        ELSE IF datasets \cap central # {}
        THEN [error |-> "ConflictingDefinitionError", central |-> central,
              transferred |-> {}]
        ELSE [error |-> "", central |-> import_into_central(central, datasets),
              transferred |-> datasets]

\* Lines 761-776: export_outputs.
export_outputs(local, central, exposure_ids) ==
    LET raws == export_subset(local, central, exposure_ids, {"raw"}, RawRun)
    IN  IF raws.error # "" THEN raws
        ELSE LET outputs == export_subset(local, raws.central, exposure_ids,
                                          get_safe_dataset_types, OutputRunName)
             IN  [error |-> outputs.error, central |-> outputs.central,
                  transferred |-> raws.transferred \cup outputs.transferred]

\* registry.getCollectionParentChains(run)
getCollectionParentChains(chains, run) ==
    {chain \in DOMAIN chains : run \in Range(chains[chain])}

\* Lines 876-878: the run leaves every chain that has it.
detach_nothing(chains, run) == chains
detach_run(chains, run) ==
    [chain \in DOMAIN chains |->
        IF chain \in getCollectionParentChains(chains, run)
        THEN setCollectionChain(remove_from_chain(chains[chain], <<run>>))
        ELSE chains[chain]]

\* The repos before a call.
Before == [local |-> lr_local, runs |-> lr_runs, chains |-> lr_chains,
           central |-> lr_central]
\* A call, its outcome, and the call before it.
Call(op, exposure_ids, error, transferred) ==
    [op |-> op, exposure_ids |-> exposure_ids, error |-> error,
     transferred |-> transferred, before |-> Before,
     prev |-> [op |-> lr_last.op, exposure_ids |-> lr_last.exposure_ids,
               error |-> lr_last.error]]

\* make_local_repo (lines 79-123) and the first MiddlewareInterface (lines
\* 196-243): the local repo has the raw run and the output run, and the
\* output run heads the prompt chain.
InitRepo ==
    /\ SidecarIdle
    /\ ExportIdle
    /\ RaceIdle
    /\ PathIdle
    /\ HandlerIdle
    /\ ConfigIdle
    /\ RunPipelineIdle
    /\ OutputRunIdle
    /\ FilterIdle
    /\ PrepIdle
    /\ CalibsIdle
    /\ ChainIdle
    /\ lr_local \in SUBSET OtherDetectorDatasets
    /\ \E generic \in {<<>>, <<OutputRunName, RawRun>>, <<RawRun, OutputRunName>>},
          previous \in {<<>>, <<PreviousRunName, PreviousRunName>>} :
         /\ lr_runs = {RawRun, OutputRunName} \cup Range(previous)
         /\ lr_chains = [chain \in {PromptChain, GenericChain, Umbrella} |->
                           CASE chain = PromptChain ->
                                  setCollectionChain(prepend_collection(
                                      setCollectionChain(prepend_collection(
                                          <<Umbrella, RawRun>>, previous)),
                                      <<OutputRunName, OutputRunName>>))
                             [] chain = GenericChain -> generic
                             [] chain = Umbrella -> <<>>]
    \* the central umbrella chain may or may not list the templates
    /\ lr_central_chain \in {CentralChain, CentralChain \o <<TemplateCollection>>}
    /\ lr_central = CentralInputs
    /\ lr_calls = 0
    /\ lr_last = [op |-> "init", exposure_ids |-> {}, error |-> "", transferred |-> {},
                  before |-> Before,
                  prev |-> [op |-> "", exposure_ids |-> {}, error |-> ""]]

\* Lines 196-243 with 616-624: another MiddlewareInterface on the same
\* local repo registers the output run and puts it first in the prompt chain.
NewInterface ==
    /\ lr_calls < MaxCalls
    /\ lr_calls' = lr_calls + 1
    /\ lr_runs' = lr_runs \cup {OutputRunName}
    /\ lr_chains' = [lr_chains EXCEPT ![PromptChain] =
                        setCollectionChain(prepend_collection(
                            @, <<OutputRunName, OutputRunName>>))]
    /\ lr_last' = Call("init", {}, "", {})
    /\ UNCHANGED <<lr_local, lr_central_chain, lr_central, NotRepo>>

\* Lines 367-402: prep_butler copies the calibs of the detector that the
\* local repo does not have; the import brings the umbrella chain of the
\* central repo, and the template collection is put in front of it.
PrepButlerCall ==
    /\ lr_calls < MaxCalls
    /\ lr_calls' = lr_calls + 1
    /\ LET wanted(repo) == {ref \in repo : ref.type = "cpBias" /\ ref.detector = VisitDetector}
           calibs == filter_datasets(wanted(lr_central), wanted(lr_local), "")
       IN  /\ lr_local' = import_(lr_local, calibs.datasets)
           /\ lr_chains' = IF calibs.error # "" THEN lr_chains
                           ELSE [lr_chains EXCEPT ![Umbrella] =
                                    setCollectionChain(prepend_collection(
                                        lr_central_chain, <<TemplateCollection>>))]
           /\ lr_last' = Call("prep_butler", {}, calibs.error, calibs.datasets)
    /\ UNCHANGED <<lr_runs, lr_central_chain, lr_central, NotRepo>>

\* Lines 692-717: ingest_image puts one raw of the exposure into the raw
\* run; the local repo must not have it yet.
IngestImage ==
    /\ lr_calls < MaxCalls
    /\ lr_calls' = lr_calls + 1
    /\ \E exposure \in Exposures :
         LET raw == Dataset("raw", RawRun, VisitDetector, exposure)
         IN  IF raw \in lr_local
             THEN /\ lr_last' = Call("ingest_image", {exposure}, "ConflictingDefinitionError", {})
                  /\ UNCHANGED lr_local
             ELSE /\ lr_local' = lr_local \cup {raw}
                  /\ lr_last' = Call("ingest_image", {exposure}, "", {})
    /\ UNCHANGED <<lr_runs, lr_chains, lr_central_chain, lr_central, NotRepo>>

\* Lines 719-759: run_pipeline writes the outputs of the exposures into the
\* output run.
RunPipeline ==
    /\ lr_calls < MaxCalls
    /\ lr_calls' = lr_calls + 1
    /\ \E exposure_ids \in SUBSET Exposures \ {{}} :
         LET raws == {Dataset("raw", RawRun, VisitDetector, e) : e \in exposure_ids}
             outputs == {Dataset("calexp", OutputRunName, VisitDetector, e) : e \in exposure_ids}
                            \cup {Dataset("isr_config", OutputRunName, 0, 0)}
         IN  IF ~(raws \subseteq lr_local)
             THEN /\ lr_last' = Call("run_pipeline", exposure_ids, "RuntimeError", {})
                  /\ UNCHANGED lr_local
             ELSE IF OutputRunName \notin lr_runs
             THEN /\ lr_last' = Call("run_pipeline", exposure_ids, "MissingCollectionError", {})
                  /\ UNCHANGED lr_local
             ELSE IF outputs \cap lr_local # {}
             THEN /\ lr_last' = Call("run_pipeline", exposure_ids, "ConflictingDefinitionError", {})
                  /\ UNCHANGED lr_local
             ELSE /\ lr_local' = lr_local \cup outputs
                  /\ lr_last' = Call("run_pipeline", exposure_ids, "", {})
    /\ UNCHANGED <<lr_runs, lr_chains, lr_central_chain, lr_central, NotRepo>>

\* Lines 761-855.
ExportOutputs ==
    /\ lr_calls < MaxCalls
    /\ lr_calls' = lr_calls + 1
    /\ \E exposure_ids \in SUBSET Exposures \ {{}} :
         LET result == export_outputs(lr_local, lr_central, exposure_ids)
         IN  /\ lr_central' = result.central
             /\ lr_last' = Call("export_outputs", exposure_ids, result.error,
                                result.transferred)
    /\ UNCHANGED <<lr_local, lr_runs, lr_chains, lr_central_chain, NotRepo>>

\* Lines 857-879.
CleanLocalRepo ==
    /\ lr_calls < MaxCalls
    /\ lr_calls' = lr_calls + 1
    /\ \E exposure_ids \in SUBSET Exposures \ {{}} :
         LET raws == {ref \in lr_local : /\ ref.type = "raw"
                                         /\ ref.run = RawRun
                                         /\ ref.exposure \in exposure_ids
                                         /\ ref.detector = VisitDetector}
         IN  IF OutputRunName \notin lr_runs
             THEN /\ lr_local' = lr_local \ raws
                  /\ lr_last' = Call("clean_local_repo", exposure_ids,
                                     "MissingCollectionError", {})
                  /\ UNCHANGED <<lr_runs, lr_chains>>
             ELSE /\ lr_local' = {ref \in lr_local \ raws : ref.run # OutputRunName}
                  /\ lr_chains' = detach_run(lr_chains, OutputRunName)
                  /\ lr_runs' = lr_runs \ {OutputRunName}
                  /\ lr_last' = Call("clean_local_repo", exposure_ids, "", {})
    /\ UNCHANGED <<lr_central_chain, lr_central, NotRepo>>

NextRepo ==
    \/ NewInterface
    \/ PrepButlerCall
    \/ IngestImage
    \/ RunPipeline
    \/ ExportOutputs
    \/ CleanLocalRepo

SpecRepo == InitRepo /\ [][NextRepo]_vars

(***************************************************************************)
(* SpecExport: two MiddlewareInterface objects, each with its own local    *)
(* repo and the exposure of its own group, export to one central repo.     *)
(* Each _export_subset call is one step.                                   *)
(***************************************************************************)
Workspaces == {1, 2}
\* The exposure of the visit of each workspace (its group has its own).
ExposureOf(w) == w
\* What the pipeline run of a workspace left in its local repo.
Processed(w) ==
    {Dataset("raw", RawRun, VisitDetector, ExposureOf(w)),
     Dataset("calexp", OutputRunName, VisitDetector, ExposureOf(w))}
ConfigDatasets == {Dataset("isr_config", OutputRunName, 0, 0)}

InitExport ==
    /\ SidecarIdle
    /\ HandlerIdle
    /\ ConfigIdle
    /\ RunPipelineIdle
    /\ OutputRunIdle
    /\ FilterIdle
    /\ PrepIdle
    /\ CalibsIdle
    /\ ChainIdle
    /\ RepoIdle
    /\ PathIdle
    /\ RaceIdle
    /\ ex_local \in {<<Processed(1) \cup a, Processed(2) \cup b>> :
                        a \in SUBSET ConfigDatasets, b \in SUBSET ConfigDatasets}
    /\ ex_central \in SUBSET CentralInputs
    /\ ex_pc = <<"start", "start">>
    /\ ex_start = ex_central

\* Lines 769-771: the raws of the workspace's exposure.
ExportRaws(w) ==
    /\ ex_pc[w] = "start"
    /\ LET r == export_subset(ex_local[w], ex_central, {ExposureOf(w)}, {"raw"}, RawRun)
       IN  /\ ex_central' = r.central
           /\ ex_pc' = [ex_pc EXCEPT ![w] = IF r.error = "" THEN "raws" ELSE "raised"]
    /\ UNCHANGED <<ex_local, ex_start, NotExport>>

\* Lines 773-779: the pipeline products in the output run.
ExportProducts(w) ==
    /\ ex_pc[w] = "raws"
    /\ LET r == export_subset(ex_local[w], ex_central, {ExposureOf(w)},
                              get_safe_dataset_types, OutputRunName)
       IN  /\ ex_central' = r.central
           /\ ex_pc' = [ex_pc EXCEPT ![w] = IF r.error = "" THEN "done" ELSE "raised"]
    /\ UNCHANGED <<ex_local, ex_start, NotExport>>

NextExport ==
    \/ \E w \in Workspaces : ExportRaws(w)
    \/ \E w \in Workspaces : ExportProducts(w)

SpecExport == InitExport /\ [][NextExport]_vars

(***************************************************************************)
(* raw.py: get_raw_path, OTHER_REGEXP, LSST_REGEXP, get_exp_id_from_oid    *)
(* SpecPath: a path is built from its fields and decoded again.  Paths are *)
(* strings, read character by character.                                   *)
(***************************************************************************)
Char(s, i) == SubSeq(s, i, i)
Positions(s, c) == {i \in 1..Len(s) : Char(s, i) = c}
DigitChars == {"0", "1", "2", "3", "4", "5", "6", "7", "8", "9"}
DigitChar(d) ==
    CASE d = 0 -> "0" [] d = 1 -> "1" [] d = 2 -> "2" [] d = 3 -> "3" [] d = 4 -> "4"
      [] d = 5 -> "5" [] d = 6 -> "6" [] d = 7 -> "7" [] d = 8 -> "8" [] d = 9 -> "9"
DigitOf(c) == CHOOSE d \in 0..9 : DigitChar(d) = c

\* \d+
IsDigits(s) == Len(s) > 0 /\ \A i \in 1..Len(s) : Char(s, i) \in DigitChars

\* int(s) of a string of digits
RECURSIVE int(_)
int(s) ==
    IF Len(s) = 1 THEN DigitOf(s)
    ELSE 10 * int(SubSeq(s, 1, Len(s) - 1)) + DigitOf(Char(s, Len(s)))

\* f"{n}" of an integer that is not negative
RECURSIVE format(_)
format(n) == IF n < 10 THEN DigitChar(n) ELSE format(n \div 10) \o DigitChar(n % 10)

\* f"{n:06d}"
RECURSIVE zfill(_, _)
zfill(s, width) == IF Len(s) >= width THEN s ELSE zfill("0" \o s, width)
format_06d(n) == zfill(format(n), 6)

\* _CAMERA_ABBREV
CAMERA_ABBREV(instrument) ==
    CASE instrument = "LATISS" -> "AT"
      [] instrument = "LSSTComCam" -> "CC"
      [] instrument = "LSSTCam" -> "MC"
      [] instrument = "LSST-TS8" -> "TS"

\* _DETECTOR_FROM_INT[instrument][detector]
DETECTOR_FROM_INT(instrument, detector) ==
    (CHOOSE t \in DETECTOR_FROM_RS : t[1] = instrument /\ t[3] = detector)[2]

\* Lines 283-297.
get_raw_path_swapped(instrument, detector, group, snap, exposure_id, filter) ==
    instrument \o "/" \o format(detector) \o "/" \o group \o "/" \o format(snap)
        \o "/" \o filter \o "/" \o format(exposure_id) \o "/x.fz"
get_raw_path(instrument, detector, group, snap, exposure_id, filter) ==
    IF instrument \notin LSST_CAMERA_LIST
    THEN instrument \o "/" \o format(detector) \o "/" \o group \o "/" \o format(snap)
             \o "/" \o format(exposure_id) \o "/" \o filter
             \o "/" \o instrument \o "-" \o group \o "-" \o format(snap)
             \o "-" \o format(exposure_id) \o "-" \o filter \o "-" \o format(detector)
             \o ".fz"
    ELSE LET day_obs == exposure_id \div 100000
             seq_num == exposure_id % 100000
             abbrev == CAMERA_ABBREV(instrument)
             raft_sensor == DETECTOR_FROM_INT(instrument, detector)
             obs_id == abbrev \o "_O_" \o format(day_obs) \o "_" \o format_06d(seq_num)
         IN  instrument \o "/" \o format(day_obs) \o "/" \o obs_id \o "/"
                 \o obs_id \o "_" \o raft_sensor \o ".fits"

\* The "/" after position p that is nearest to it, 0 if there is none.
NextSlash(s, p) ==
    LET later == {q \in Positions(s, "/") : q > p}
    IN  IF later = {} THEN 0 ELSE CHOOSE q \in later : \A r \in later : q <= r

\* The first of a set of tuples of positions, in the order in which the
\* non-greedy groups of a pattern try them.
RECURSIVE LexLess(_, _)
LexLess(a, b) ==
    IF a = <<>> THEN FALSE
    ELSE Head(a) < Head(b) \/ (Head(a) = Head(b) /\ LexLess(Tail(a), Tail(b)))
FirstGroups(cands) == CHOOSE c \in cands : \A d \in cands : c = d \/ LexLess(c, d)

\* [^/]+\.f at position p + 1
FileNameAt(s, p) ==
    \E k \in 1..Len(s) :
        /\ p + k + 2 <= Len(s)
        /\ \A j \in 1..k : Char(s, p + j) # "/"
        /\ SubSeq(s, p + k + 1, p + k + 2) = ".f"

\* re.match(OTHER_REGEXP, oid): the groups, or matched = FALSE.
NoMatch == [matched |-> FALSE]
MatchOther(s) ==
    LET sl == Positions(s, "/")
        cands == {c \in sl \X sl \X sl \X sl :
                    LET p2 == NextSlash(s, c[1])
                        p4 == NextSlash(s, c[2])
                    IN  /\ p2 # 0 /\ IsDigits(SubSeq(s, c[1] + 1, p2 - 1))
                        /\ c[2] > p2
                        /\ p4 # 0 /\ IsDigits(SubSeq(s, c[2] + 1, p4 - 1))
                        /\ c[3] > p4
                        /\ c[4] > c[3]
                        /\ FileNameAt(s, c[4])}
    IN  IF cands = {} THEN NoMatch
        ELSE LET c == FirstGroups(cands)
                 p2 == NextSlash(s, c[1])
                 p4 == NextSlash(s, c[2])
             IN  [matched |-> TRUE,
                  instrument |-> SubSeq(s, 1, c[1] - 1),
                  detector |-> SubSeq(s, c[1] + 1, p2 - 1),
                  group |-> SubSeq(s, p2 + 1, c[2] - 1),
                  snap |-> SubSeq(s, c[2] + 1, p4 - 1),
                  expid |-> SubSeq(s, p4 + 1, c[3] - 1),
                  filter |-> SubSeq(s, c[3] + 1, c[4] - 1)]

\* R\d\d_S.\d
IsRaftSensor(rs) ==
    /\ Len(rs) = 7
    /\ Char(rs, 1) = "R" /\ Char(rs, 2) \in DigitChars /\ Char(rs, 3) \in DigitChars
    /\ Char(rs, 4) = "_" /\ Char(rs, 5) = "S" /\ Char(rs, 7) \in DigitChars

\* re.match(LSST_REGEXP, oid)
MatchLsst(s) ==
    LET sl == Positions(s, "/")
        cands == {c \in sl \X sl :
                    LET p2 == NextSlash(s, c[1])
                        n == c[2] - p2 - 1
                        q == c[2] + n
                    IN  /\ p2 # 0 /\ IsDigits(SubSeq(s, c[1] + 1, p2 - 1))
                        /\ c[2] > p2
                        /\ q + 10 <= Len(s)
                        /\ SubSeq(s, c[2] + 1, q) = SubSeq(s, p2 + 1, c[2] - 1)
                        /\ Char(s, q + 1) = "_"
                        /\ IsRaftSensor(SubSeq(s, q + 2, q + 8))
                        /\ SubSeq(s, q + 9, q + 10) = ".f"}
    IN  IF cands = {} THEN NoMatch
        ELSE LET c == FirstGroups(cands)
                 p2 == NextSlash(s, c[1])
                 q == c[2] + (c[2] - p2 - 1)
             IN  [matched |-> TRUE,
                  instrument |-> SubSeq(s, 1, c[1] - 1),
                  day_obs |-> SubSeq(s, c[1] + 1, p2 - 1),
                  obs_id |-> SubSeq(s, p2 + 1, c[2] - 1),
                  raft_sensor |-> SubSeq(s, q + 2, q + 8),
                  extension |-> SubSeq(s, q + 9, Len(s))]

\* instrument, _ = oid.split("/", maxsplit=1)
FirstSegment(oid) == SubSeq(oid, 1, NextSlash(oid, 0) - 1)

\* What the decoders raise: the ValueError "... could not be parsed into ..."
\* of lines 233, 257 and 261, and the ValueError of a tuple unpacking or of
\* int() (lines 219, 223, 230, 231).
CouldNotBeParsed == -1
OtherValueError == -2

\* Lines 206-233: get_exp_id_from_oid; a negative result is what it raises.
get_exp_id_from_oid(oid) ==
    IF NextSlash(oid, 0) = 0 THEN OtherValueError
    ELSE IF FirstSegment(oid) \notin LSST_CAMERA_LIST
    THEN LET m == MatchOther(oid)
         IN  IF ~m.matched THEN CouldNotBeParsed
             ELSE IF IsDigits(m.expid) THEN int(m.expid) ELSE OtherValueError
    ELSE LET m == MatchLsst(oid)
         IN  IF ~m.matched THEN CouldNotBeParsed
             ELSE LET us == Positions(m.obs_id, "_")
                  IN  IF Cardinality(us) # 3 THEN OtherValueError
                      ELSE LET u2 == CHOOSE u \in us : Cardinality({v \in us : v < u}) = 1
                               u3 == CHOOSE u \in us : Cardinality({v \in us : v < u}) = 2
                               day_obs == SubSeq(m.obs_id, u2 + 1, u3 - 1)
                               seq_num == SubSeq(m.obs_id, u3 + 1, Len(m.obs_id))
                           IN  IF IsDigits(day_obs) /\ IsDigits(seq_num)
                               THEN int(day_obs) * 100000 + int(seq_num)
                               ELSE OtherValueError

\* Lines 236-267: get_group_id_from_oid up to the sidecar's name.  For an
\* LSST camera the group is in the sidecar, whose path is returned.
get_group_id_from_oid(oid) ==
    IF NextSlash(oid, 0) = 0
    THEN [raises |-> OtherValueError, group |-> "", sidecar |-> ""]
    ELSE IF FirstSegment(oid) \notin LSST_CAMERA_LIST
    THEN LET m == MatchOther(oid)
         IN  IF m.matched THEN [raises |-> 0, group |-> m.group, sidecar |-> ""]
             ELSE [raises |-> CouldNotBeParsed, group |-> "", sidecar |-> ""]
    ELSE LET m == MatchLsst(oid)
         IN  IF ~m.matched THEN [raises |-> CouldNotBeParsed, group |-> "", sidecar |-> ""]
             ELSE [raises |-> 0, group |-> "",
                   sidecar |-> SubSeq(oid, 1, Len(oid) - Len(m.extension)) \o ".json"]

\* The fields the patterns see in an object path (the paths of the handler
\* are kept as these fields).
oid_fields(oid) ==
    IF NextSlash(oid, 0) = 0 THEN JunkPath
    ELSE IF FirstSegment(oid) \notin LSST_CAMERA_LIST
    THEN LET m == MatchOther(oid)
         IN  IF m.matched
             THEN GenericPath(m.instrument, m.detector, m.group, m.snap, m.expid)
             ELSE [JunkPath EXCEPT !.scheme = "no match", !.instrument = FirstSegment(oid)]
    ELSE LET m == MatchLsst(oid)
         IN  IF m.matched
             THEN LsstPath(FirstSegment(oid), m.raft_sensor, m.obs_id)
             ELSE [JunkPath EXCEPT !.scheme = "no match", !.instrument = FirstSegment(oid)]

\* The fields of a raw: generic instruments with any detector number, LSST
\* cameras with the detectors of their tables.
GenericFields ==
    [instrument : {"HSC", "DECam"}, detector : {0, 5, 56, 104},
     group : {"1", "2023-03-14T05:06:07.890"}, snap : {0, 1, 12},
     exposure_id : {0, 7, 411371, 2023031412}, filter : {"g", "HSC-R"}]
LsstFields ==
    {f \in [instrument : {"LATISS", "LSSTComCam", "LSSTCam", "LSST-TS8"},
            detector : 0..204, group : {"1"}, snap : {0},
            exposure_id : {7, 99999, 100000, 2023031412}, filter : {"g"}] :
        \E t \in DETECTOR_FROM_RS : t[1] = f.instrument /\ t[3] = f.detector}

InitPath ==
    /\ SidecarIdle
    /\ ExportIdle
    /\ RaceIdle
    /\ HandlerIdle
    /\ ConfigIdle
    /\ RunPipelineIdle
    /\ OutputRunIdle
    /\ FilterIdle
    /\ PrepIdle
    /\ CalibsIdle
    /\ ChainIdle
    /\ RepoIdle
    /\ rt_fields \in GenericFields \cup LsstFields
    /\ rt_path = ""
    /\ rt_decoded = <<>>
    /\ rt_pc = "start"

\* upload.py and the tests store a raw at get_raw_path(...).
EncodePath ==
    /\ rt_pc = "start"
    /\ rt_path' = get_raw_path(rt_fields.instrument, rt_fields.detector, rt_fields.group,
                               rt_fields.snap, rt_fields.exposure_id, rt_fields.filter)
    /\ rt_pc' = "encoded"
    /\ UNCHANGED <<rt_fields, rt_decoded, NotPath>>

\* The patterns and get_exp_id_from_oid read the path.
DecodePath ==
    /\ rt_pc = "encoded"
    /\ rt_decoded' = [other |-> MatchOther(rt_path), lsst |-> MatchLsst(rt_path),
                      exp_id |-> get_exp_id_from_oid(rt_path)]
    /\ rt_pc' = "decoded"
    /\ UNCHANGED <<rt_fields, rt_path, NotPath>>

NextPath ==
    \/ EncodePath
    \/ DecodePath

SpecPath == InitPath /\ [][NextPath]_vars

(***************************************************************************)
(* SpecDecode: the decoders of raw.py read an object path of any shape.    *)
(***************************************************************************)
\* Object paths in the bucket: well-formed ones and others.
PathTails ==
    { "1/7/0/411/g/HSC-7-0-411-g-1.fz",
      "1/7/1/412/g/x.fits",
      "2/7/0/411/g/x.fits.gz",
      "1/7/0/e1/g/x.fz",
      "x/7/0/411/g/x.fz",
      "1/7/0/411/g/",
      "1/7",
      "",
      "20230/MC_O_20230_000012/MC_O_20230_000012_R01_S01.fits",
      "20230/MC_O_20230_000012/MC_O_20230_000012_R00_S00.fits",
      "20230/MC_O_20230_000012/MC_O_20230_000012_R99_S99.fits",
      "20230/MC_20230_12/MC_20230_12_R01_S01.fits",
      "20230/MC_O_1_20230_12/MC_O_1_20230_12_R01_S01.fits",
      "20230/MC_O_20230_000012/MC_O_20230_000013_R01_S01.fits",
      "20230/x.fits" }
BucketOids ==
    {"", "HSC", "LSSTCam", "x.fits"}
    \cup {i \o "/" \o t : i \in {"HSC", "Foo", "LSSTCam", "ComCam", "LATISS"},
                            t \in PathTails}
FannedOutVisits ==
    [instrument : {"HSC", "LSSTCam"}, detector : {1}, groupId : {"7"}, nimages : {2}]

InitDecode ==
    /\ SidecarIdle
    /\ ExportIdle
    /\ RaceIdle
    /\ HandlerIdle
    /\ ConfigIdle
    /\ RunPipelineIdle
    /\ OutputRunIdle
    /\ FilterIdle
    /\ PrepIdle
    /\ CalibsIdle
    /\ ChainIdle
    /\ RepoIdle
    /\ rt_fields \in FannedOutVisits
    /\ rt_path \in BucketOids
    /\ rt_decoded = <<>>
    /\ rt_pc = "oid"

\* is_path_consistent(oid, visit), get_exp_id_from_oid(oid) and
\* get_group_id_from_oid(oid) on an object of the bucket.
DecodeOid ==
    /\ rt_pc = "oid"
    /\ rt_decoded' = [consistent |-> is_path_consistent(oid_fields(rt_path), rt_fields),
                      exp_id |-> get_exp_id_from_oid(rt_path),
                      group_id |-> get_group_id_from_oid(rt_path)]
    /\ rt_pc' = "oid decoded"
    /\ UNCHANGED <<rt_fields, rt_path, NotPath>>

NextDecode == DecodeOid

SpecDecode == InitDecode /\ [][NextDecode]_vars

(***************************************************************************)
(* SpecSidecar: get_group_id_from_oid on the path of an LSST camera waits  *)
(* for the sidecar file (lines 262-280).                                   *)
(***************************************************************************)
\* if count > 20
MaxRetries == 20
GivesUpAtOnce(count) == count > 0
RetriesUsedUp(count) == count > MaxRetries

\* md.get("GROUPID", "")
md_get(md, key, default) == IF key \in DOMAIN md THEN md[key] ELSE default

SidecarContents == {[GROUPID |-> "2023-03-14T05:06:07.890"], [SEQNUM |-> "12"]}

InitSidecar ==
    /\ HandlerIdle
    /\ ConfigIdle
    /\ RunPipelineIdle
    /\ OutputRunIdle
    /\ FilterIdle
    /\ PrepIdle
    /\ CalibsIdle
    /\ ChainIdle
    /\ RepoIdle
    /\ PathIdle
    /\ RaceIdle
    /\ ExportIdle
    /\ sc_oid \in {"LSSTCam/20230/MC_O_20230_000012/MC_O_20230_000012_R01_S01.fits",
                   "LATISS/20230/AT_O_20230_000012/AT_O_20230_000012_R00_S00.fits.fz"}
    /\ sc_sidecar = get_group_id_from_oid(sc_oid).sidecar
    /\ sc_exists \in BOOLEAN
    /\ sc_md \in SidecarContents
    /\ sc_count = 0
    /\ sc_checks = 0
    /\ sc_sleeps = 0
    /\ sc_pc = "check"
    /\ sc_result = ""

\* Lines 271-274: while not sidecar.exists(): count += 1; if count > 20: raise
CheckSidecar ==
    /\ sc_pc = "check"
    /\ sc_checks' = sc_checks + 1
    /\ IF sc_exists
       THEN /\ sc_pc' = "open"
            /\ UNCHANGED sc_count
       ELSE /\ sc_count' = sc_count + 1
            /\ sc_pc' = IF RetriesUsedUp(sc_count') THEN "RuntimeError" ELSE "sleep"
    /\ UNCHANGED <<sc_oid, sc_sidecar, sc_exists, sc_md, sc_sleeps, sc_result, NotSidecar>>

\* Line 275: time.sleep(0.1)
Sleep ==
    /\ sc_pc = "sleep"
    /\ sc_sleeps' = sc_sleeps + 1
    /\ sc_pc' = "check"
    /\ UNCHANGED <<sc_oid, sc_sidecar, sc_exists, sc_md, sc_count, sc_checks, sc_result,
                   NotSidecar>>

\* Lines 277-280: the file is read and its GROUPID returned.
ReadSidecar ==
    /\ sc_pc = "open"
    /\ sc_result' = md_get(sc_md, "GROUPID", "")
    /\ sc_pc' = "returned"
    /\ UNCHANGED <<sc_oid, sc_sidecar, sc_exists, sc_md, sc_count, sc_checks, sc_sleeps,
                   NotSidecar>>

\* The camera's archiver writes the sidecar, at any time.
SidecarArrives ==
    /\ sc_pc \in {"check", "sleep"}
    /\ ~sc_exists
    /\ sc_exists' = TRUE
    /\ UNCHANGED <<sc_oid, sc_sidecar, sc_md, sc_count, sc_checks, sc_sleeps, sc_pc,
                   sc_result, NotSidecar>>

NextSidecar ==
    \/ CheckSidecar
    \/ Sleep
    \/ ReadSidecar
    \/ SidecarArrives

SpecSidecar == InitSidecar /\ [][NextSidecar]_vars

\* The function is one sequential flow of control and sleep returns; the
\* archiver owes nothing.
FairSpecSidecar ==
    InitSidecar /\ [][NextSidecar]_vars
        /\ WF_vars(CheckSidecar) /\ WF_vars(Sleep) /\ WF_vars(ReadSidecar)

(***************************************************************************)
(* Properties of next_visit_handler (Spec, FairSpec).                      *)
(***************************************************************************)
DistinctCount(s) == Cardinality(Members(s))
InWaitLoop == pc \in {"loop", "pulled", "batch"}
Snap0 == GenericPath("HSC", "1", "7", "0", "e1")
Snap1 == GenericPath("HSC", "1", "7", "1", "e2")
WrongGroup == GenericPath("HSC", "1", "8", "0", "e1")
LsstSnap == LsstPath("LSSTCam", "R01_S01", "e1")

\* C1: the exposure ids are accumulated as a set.  At the loop test the loop
\* ends complete exactly when the number of distinct recorded ids has reached
\* the expected snap count, every recorded id is held once, and a repeated
\* delivery never changes the number of recorded ids.
C1_SetOfExposures ==
    /\ [](\A e \in ExpIds : expid_set[e] <= 1)
    /\ [](SetLen(expid_set) = DistinctCount(expid_set))
    /\ [](wait_exit = "complete" => DistinctCount(expid_set) >= expected_visit.snaps)
    /\ [][pc = "loop" =>
            (wait_exit' = "complete" <=> DistinctCount(expid_set) >= expected_visit.snaps)]_vars
    /\ [][(pc = "batch" /\ Len(batch') = idx /\ batch'[idx].expid \in Members(expid_set))
            => Members(expid_set') = Members(expid_set)]_vars

\* C1 witness: two snaps expected, nothing in the bucket; the first snap came
\* in an earlier batch and was delivered twice, the second snap came alone in
\* a later batch, and the loop ended complete with both ids held once.
C1_Witness ==
    /\ wait_exit = "complete"
    /\ expected_visit.snaps = 2
    /\ bucket = {}
    /\ ingested[Snap0] = 2
    /\ ingested[Snap1] = 1
    /\ Len(ack_list) = 1
    /\ expid_set = [e \in ExpIds |-> IF e \in {"e1", "e2"} THEN 1 ELSE 0]

\* The number of seconds the configured timeout stands for.
TimeoutSeconds == timeout.val

\* C2: the loop ends timed-out only by an empty pull at which the elapsed
\* time has reached the timeout, and an empty pull before the timeout has
\* elapsed goes back to pulling.
C2_TimedOutOnlyAfterTimeout ==
    [][pc = "pulled" =>
         /\ (wait_exit' = "timed_out" => received = 0 /\ elapsed >= TimeoutSeconds)
         /\ (received = 0 /\ elapsed < TimeoutSeconds => pc' = "loop")]_vars

\* C3: once the timeout has elapsed the wait loop is eventually left, whatever
\* the notifications that arrive.
C3_WaitEndsAfterTimeout ==
    (InWaitLoop /\ elapsed >= TimeoutSeconds) ~> ~InWaitLoop

FieldsMatch(oid, visit) ==
    /\ oid.instrument = visit.instrument
    /\ IntOf(oid.detector) = visit.detector
    /\ oid.group = StrOf(visit.group)
    /\ IntOf(oid.snap) >= 0
    /\ IntOf(oid.snap) < visit.snaps
\* The expected visit as is_path_consistent reads it.
AsFannedOutVisit(visit) ==
    [instrument |-> visit.instrument, detector |-> visit.detector,
     groupId |-> StrOf(visit.group), nimages |-> visit.snaps]
HandlerDiscards ==
    [][(pc = "batch" /\ Len(batch') = idx /\ ~FieldsMatch(batch'[idx], expected_visit))
         => (ingested' = ingested /\ expid_set' = expid_set)]_vars

C6_PipelineIffExposures ==
    /\ (pipeline_runs # <<>> =>
            /\ wait_exit # "none"
            /\ pipeline_runs = <<Members(expid_set)>>
            /\ Members(expid_set) # {})
    /\ (wait_exit # "none" /\ pc \in {"finally", "done"} =>
            (Members(expid_set) # {} <=> Len(pipeline_runs) = 1))
    /\ (wait_exit # "none" /\ pc = "done" /\ outcome.kind = "return" =>
            IF Members(expid_set) # {}
            THEN response = [msg |-> "Pipeline executed", status |-> 200]
            ELSE response = [msg |-> "Timed out waiting for images", status |-> 500])
    /\ (wait_exit # "none" /\ pc = "done" /\ Members(expid_set) = {} =>
            pipeline_runs = <<>> /\ response.status = 500)

\* C6 witness: a timeout with one of two expected snaps; the pipeline ran on
\* that one exposure and the handler answered 200.
C6_Witness ==
    /\ pc = "done"
    /\ wait_exit = "timed_out"
    /\ expected_visit.snaps = 2
    /\ pipeline_runs = <<{"e1"}>>
    /\ response = [msg |-> "Pipeline executed", status |-> 200]

\* C7: when the handler has finished, the subscription it created has been
\* deleted, on every exit path; a subscription exists only during a request.
C7_SubscriptionDeleted ==
    /\ (pc = "done" => subscription # "active")
    /\ (pc = "done" /\ request.token_ok => subscription = "deleted")
    /\ (subscription = "active" => pc \notin {"start", "done"})

\* C7 witness: the handler ended by an exception of ingest_image inside the
\* loop and the subscription is deleted.
C7_Witness ==
    /\ pc = "done"
    /\ outcome = Raise("ingest_image")
    /\ Len(batch) > 0
    /\ subscription = "deleted"

\* A request the interface section says must be rejected.
InvalidRequest ==
    \/ request.envelope # "ok"
    \/ expected_visit.instrument # active_instrument

\* C8: an empty or malformed envelope, a visit with missing fields or a visit
\* for another instrument is answered with a 4xx, and no replication,
\* ingestion or pipeline run is started for it.
C8_InvalidRequestIsClientError ==
    pc = "done" /\ InvalidRequest =>
        /\ response.status \in 400..499
        /\ ~prepped
        /\ \A o \in Oids : ingested[o] = 0
        /\ pipeline_runs = <<>>

(***************************************************************************)
(* Properties of PipelinesConfig (SpecConfig).                             *)
(***************************************************************************)
\* The nodes, by position, whose survey constraint is absent or is the survey.
MatchingNodes(nodes, survey) ==
    {i \in DOMAIN nodes :
        nodes[i].survey.type = "none" \/ nodes[i].survey = StrVal(survey)}
Resolved == cfg_result # <<"none">>

\* C9: get_pipeline_files returns the (normalized) pipeline list of the first
\* node, in configuration order, whose survey constraint is absent or equals
\* the visit's survey, whatever the later nodes; with no such node it raises.
C9_FirstMatchWins ==
    Resolved =>
        LET m == MatchingNodes(cfg_nodes, cfg_survey)
        IN  IF m = {} THEN cfg_result = <<"RuntimeError">>
            ELSE LET first == CHOOSE i \in m : \A j \in m : i <= j
                 IN  cfg_result = parse_pipelines(cfg_nodes[first].pipelines)

\* C9 witness: rules [(S1 -> [ApPipe]), (no survey -> [Isr])] and a visit of
\* survey S1: both rules match and the first one's list is returned.
C9_Witness ==
    /\ cfg_nodes = << Node(TRUE, ListVal(<<Path("/etc/pipelines", "ApPipe", ".yaml")>>),
                           StrVal("S1"), FALSE),
                      Node(TRUE, ListVal(<<Path("pipelines", "Isr", ".yaml")>>),
                           NoneVal, FALSE) >>
    /\ cfg_survey = "S1"
    /\ cfg_result = <<"ok", <<Path("/etc/pipelines", "ApPipe", ".yaml")>>>>

\* The base names of the pipeline files of a constructed config, by place.
Places(specs) == UNION {{<<i, j>> : j \in DOMAIN specs[i].filenames} : i \in DOMAIN specs}
BaseNameAt(specs, pl) == specs[pl[1]].filenames[pl[2]].stem

\* C10 as stated: a constructed config has pairwise distinct pipeline base
\* names across all of its nodes.
C10_DistinctAcrossConfig ==
    cfg_state = "built" =>
        \A a, b \in Places(cfg_specs) :
            a # b => BaseNameAt(cfg_specs, a) # BaseNameAt(cfg_specs, b)

\* C10 as amended: construction fails whenever two pipeline files of the same
\* node have the same base name, and a constructed config has pairwise
\* distinct base names within each node (not across nodes).
C10_DistinctWithinNode ==
    /\ cfg_state = "built" =>
          \A a, b \in Places(cfg_specs) :
              (a # b /\ a[1] = b[1]) => BaseNameAt(cfg_specs, a) # BaseNameAt(cfg_specs, b)
    /\ (cfg_state # "new" /\
        \E i \in DOMAIN cfg_nodes :
            /\ cfg_nodes[i].has_pipelines
            /\ cfg_nodes[i].pipelines.type = "list"
            /\ \E j, k \in DOMAIN cfg_nodes[i].pipelines.list :
                  j # k /\ cfg_nodes[i].pipelines.list[j].stem = cfg_nodes[i].pipelines.list[k].stem)
          => cfg_state = "ValueError"

\* C10 witness: a single well-formed node with ApPipe.yaml and ApPipe.yml of
\* two directories is rejected.
C10_Witness ==
    /\ cfg_nodes = << Node(TRUE, ListVal(<< Path("/etc/pipelines", "ApPipe", ".yaml"),
                                            Path("${AP_PIPE_DIR}", "ApPipe", ".yml") >>),
                           NoneVal, FALSE) >>
    /\ cfg_state = "ValueError"

\* A node that is well formed apart from its pipelines entry.
WellFormedBut(node) ==
    /\ node.survey.type \in {"none", "str"}
    /\ ~node.extra
\* The pipelines entry is None, the string "None" or an empty list.
NoPipelines(node) ==
    /\ node.has_pipelines
    /\ \/ node.pipelines.type = "none"
       \/ node.pipelines = StrVal("None")
       \/ node.pipelines = ListVal(<<>>)
FirstMatching(nodes, survey) ==
    CHOOSE i \in MatchingNodes(nodes, survey) : \A j \in MatchingNodes(nodes, survey) : i <= j

\* C11 as stated: a rule whose pipelines entry is empty, None or absent is
\* accepted by the construction, and a visit whose first matching rule is such
\* a rule resolves to the empty list.
C11_NoPipelineRuleAccepted ==
    /\ (cfg_state # "new" /\ cfg_nodes # <<>> /\
        \A i \in DOMAIN cfg_nodes :
            WellFormedBut(cfg_nodes[i]) /\ (NoPipelines(cfg_nodes[i]) \/ ~cfg_nodes[i].has_pipelines))
          => cfg_state = "built"
    /\ (Resolved /\ MatchingNodes(cfg_nodes, cfg_survey) # {}
          /\ NoPipelines(cfg_nodes[FirstMatching(cfg_nodes, cfg_survey)]))
          => cfg_result = <<"ok", <<>>>>

\* C11 as amended: a rule whose pipelines entry is an empty list, None or the
\* string "None" is accepted and a visit whose first matching rule is such a
\* rule resolves to the empty list, whatever the later rules; a rule without
\* a pipelines entry makes the construction fail with ValueError.
C11_EmptyOrNoneAcceptedAbsentRejected ==
    /\ (cfg_state # "new" /\ cfg_nodes # <<>> /\
        \A i \in DOMAIN cfg_nodes :
            WellFormedBut(cfg_nodes[i]) /\ NoPipelines(cfg_nodes[i]))
          => cfg_state = "built"
    /\ (Resolved /\ MatchingNodes(cfg_nodes, cfg_survey) # {}
          /\ NoPipelines(cfg_nodes[FirstMatching(cfg_nodes, cfg_survey)]))
          => cfg_result = <<"ok", <<>>>>
    /\ (cfg_state # "new" /\ \E i \in DOMAIN cfg_nodes : ~cfg_nodes[i].has_pipelines)
          => cfg_state = "ValueError"

\* C11 witness: rules [(S1 -> None), (no survey -> [Isr])] and a visit of
\* survey S1 resolve to the empty list, not to the later rule's pipeline.
C11_Witness ==
    /\ cfg_nodes = << Node(TRUE, NoneVal, StrVal("S1"), FALSE),
                      Node(TRUE, ListVal(<<Path("pipelines", "Isr", ".yaml")>>),
                           NoneVal, FALSE) >>
    /\ cfg_survey = "S1"
    /\ cfg_result = <<"ok", <<>>>>

(***************************************************************************)
(* Properties of run_pipeline (SpecPipeline).                              *)
(***************************************************************************)
Finished == rp_pc \in {"done", "raised"}
VisitsDefinable == rp_exposure_ids \subseteq rp_ingested
NonEmptyGraphs == {k \in DOMAIN rp_graphs : rp_graphs[k] > 0}
ExecutorFailed == rp_error \in {"pre_execute_qgraph", "run_pipeline"}

\* C12: when run_pipeline has finished for exposures the repo knows and the
\* executor itself did not fail, then, if some configured pipeline gives a
\* non-empty graph, exactly the first such pipeline was pre-executed once and
\* executed once, and the call succeeded.
C12_FirstNonEmptyGraphRuns ==
    (Finished /\ VisitsDefinable /\ ~ExecutorFailed /\ NonEmptyGraphs # {}) =>
        LET first == CHOOSE k \in NonEmptyGraphs : \A j \in NonEmptyGraphs : k <= j
        IN  /\ rp_pc = "done"
            /\ rp_preexec_calls = <<first>>
            /\ rp_run_calls = <<first>>

\* C13: if every configured pipeline gives an empty graph, neither
\* pre-execution nor execution is ever called, and run_pipeline ends with the
\* error "No data to process.".
C13_AllEmptyNoDataToProcess ==
    (NonEmptyGraphs = {}) =>
        /\ rp_preexec_calls = <<>>
        /\ rp_run_calls = <<>>
        /\ rp_pc \notin {"graph_made", "pre_executed", "done"}
        /\ (Finished => rp_error = "No data to process.")

\* C13 witness: two pipelines with empty graphs, exposures known to the repo;
\* the graph was asked for and run_pipeline raised.
C13_Witness ==
    /\ rp_pc = "raised"
    /\ rp_graphs = <<0, 0>>
    /\ VisitsDefinable
    /\ rp_graph_calls = <<1>>
    /\ rp_error = "No data to process."

\* C14: if some given exposure id is not an exposure of the repo, no graph is
\* built, nothing is pre-executed or executed, and run_pipeline ends with the
\* error "No data to process.".
C14_BadExposuresNoDataToProcess ==
    (~VisitsDefinable) =>
        /\ rp_graph_calls = <<>>
        /\ rp_preexec_calls = <<>>
        /\ rp_run_calls = <<>>
        /\ rp_pc \in {"start", "raised"}
        /\ (Finished => rp_error = "No data to process.")

\* C14 witness: exposure 1 was ingested and run_pipeline({2}) has raised,
\* although the pipeline would have given a non-empty graph.
C14_Witness ==
    /\ rp_pc = "raised"
    /\ rp_exposure_ids = {2}
    /\ rp_ingested = {1}
    /\ rp_graphs = <<2>>
    /\ rp_error = "No data to process."

(***************************************************************************)
(* Properties of the output run (SpecOutputRun).                           *)
(***************************************************************************)
\* The processing date of an object made at a reading of the clock: the date
\* of the day_obs time zone (UTC-12), as YYYY-MM-DD.
ProcessingDate(now) ==
    CASE now.day = 1 /\ now.hour = 5 -> "2023-02-28"
      [] now.day = 1 /\ now.hour = 20 -> "2023-03-01"
      [] now.day = 14 /\ now.hour = 5 -> "2023-03-13"
      [] now.day = 14 /\ now.hour = 20 -> "2023-03-14"
      [] now.day = 15 /\ now.hour = 5 -> "2023-03-14"
      [] OTHER -> "2023-03-15"

\* C15: the output run is {instrument}/prompt/output-{date}/ApPipe/{deployment}
\* and the init-output run is the same; two objects of the same processing
\* date and deployment have the same run, and the repo holds one run per
\* (date, deployment) however many objects were made.
C15_OutputRunName ==
    /\ \A i \in DOMAIN or_attempts :
          LET a == or_attempts[i]
          IN  /\ a.output_run = or_instrument \o "/prompt/output-" \o ProcessingDate(a.now)
                                   \o "/ApPipe/" \o a.deployment
              /\ a.init_output_run = a.output_run
    /\ \A i, j \in DOMAIN or_attempts :
          (/\ ProcessingDate(or_attempts[i].now) = ProcessingDate(or_attempts[j].now)
           /\ or_attempts[i].deployment = or_attempts[j].deployment)
             => or_attempts[i].output_run = or_attempts[j].output_run
    /\ Cardinality(or_runs) =
          Cardinality({<<ProcessingDate(or_attempts[i].now), or_attempts[i].deployment>> :
                          i \in DOMAIN or_attempts})

\* C15 witness: two objects of the same deployment, made in the evening of
\* 14 March and in the morning of 15 March (UTC), which is one processing
\* date; the repo holds one run.
C15_Witness ==
    /\ Len(or_attempts) = 2
    /\ or_attempts[1].now.day = 14 /\ or_attempts[1].now.hour = 20
    /\ or_attempts[2].now.day = 15 /\ or_attempts[2].now.hour = 5
    /\ or_attempts[1].deployment = or_attempts[2].deployment
    /\ or_runs = {or_instrument \o "/prompt/output-2023-03-14/ApPipe/" \o or_attempts[1].deployment}

(***************************************************************************)
(* Properties of _filter_datasets (SpecFilter).                            *)
(***************************************************************************)
\* What the two repositories hold for the query.
InSource == {ref \in fd_src : ref.type = fd_query}
InDestination == {ref \in fd_dest : ref.type = fd_query}
FilterEnded == fd_pc \in {"returned", "raised"}

\* C16: both repositories are queried with the same criteria, those of the
\* call, and when both queries succeed with a non-empty source result S and a
\* destination result D, the call returns exactly S \ D.
C16_ReturnsSetDifference ==
    /\ \A i \in DOMAIN fd_calls : fd_calls[i].query = fd_query
    /\ (FilterEnded /\ fd_error = "" =>
            {fd_calls[i].repo : i \in DOMAIN fd_calls} = {"src", "dest"})
    /\ (FilterEnded /\ fd_src_error = "" /\ fd_dest_error = "" /\ InSource # {}) =>
            /\ fd_pc = "returned"
            /\ fd_result = InSource \ InDestination

\* C16 witness: the source has two matching datasets and the destination has
\* one of them; the other one is returned.
C16_Witness ==
    /\ fd_pc = "returned"
    /\ fd_query = "cpBias"
    /\ InSource = {[type |-> "cpBias", detector |-> 5], [type |-> "cpBias", detector |-> 25]}
    /\ InDestination = {[type |-> "cpBias", detector |-> 5]}
    /\ fd_result = {[type |-> "cpBias", detector |-> 25]}

\* C17: if the query of the destination fails with DataIdValueError, the
\* error is not propagated: the source is still queried, and with a non-empty
\* source result the call returns all of it.
C17_UnknownDimensionsMeanEmpty ==
    (fd_dest_error = "DataIdValueError") =>
        /\ fd_error # "DataIdValueError" \/ fd_src_error = "DataIdValueError"
        /\ (FilterEnded => Len(fd_calls) = 2)
        /\ (FilterEnded /\ fd_src_error = "" /\ InSource # {}) =>
              fd_pc = "returned" /\ fd_result = InSource

\* C17 witness: the destination does not know the dimension values and the
\* call has returned the two datasets of the source.
C17_Witness ==
    /\ fd_pc = "returned"
    /\ fd_dest_error = "DataIdValueError"
    /\ Cardinality(fd_result) = 2
    /\ fd_result = InSource

\* C18: if the source query finds nothing, the call raises
\* _MissingDatasetError whatever the destination holds, and an error of the
\* source query itself is the error of the call.
C18_SourceFailuresNeverSwallowed ==
    /\ (FilterEnded /\ fd_src_error = "" /\ InSource = {}
            /\ fd_dest_error \in {"", "DataIdValueError"}) =>
          fd_pc = "raised" /\ fd_error = "_MissingDatasetError"
    /\ (FilterEnded /\ fd_src_error # "" /\ fd_dest_error \in {"", "DataIdValueError"}) =>
          fd_pc = "raised" /\ fd_error = fd_src_error
    /\ (InSource = {} \/ fd_src_error # "") => fd_pc # "returned"

\* C18 witness: the source has nothing for the query, the destination has a
\* matching dataset, and the call has raised _MissingDatasetError.
C18_Witness ==
    /\ fd_pc = "raised"
    /\ fd_error = "_MissingDatasetError"
    /\ InSource = {}
    /\ InDestination # {}

(***************************************************************************)
(* Properties of prep_butler (SpecPrep).                                   *)
(***************************************************************************)
\* C19: when a prep_butler call that succeeded is followed by a call for a
\* visit that differs only in group, the second call succeeds too, copies
\* nothing, and leaves the local repo's datasets as the first call left them;
\* no call ever exports a dataset that the local repo already has.
C19_PrepButlerIdempotent ==
    /\ pb_export \cap pb_before.datasets = {}
    /\ \A i \in DOMAIN pb_history : i + 1 \in DOMAIN pb_history =>
         LET first == pb_history[i]
             second == pb_history[i + 1]
         IN  (first.error = "" /\ second.visit.detector = first.visit.detector) =>
                 /\ second.visit.groupId # first.visit.groupId
                 /\ second.error = ""
                 /\ second.before = first.after
                 /\ second.after = first.after

\* C19 witness: two successful calls for detector 56, the first of which
\* copied refcats, skymap, templates and calibs.
C19_Witness ==
    /\ Len(pb_history) >= 2
    /\ pb_history[1].error = "" /\ pb_history[2].error = ""
    /\ pb_history[1].visit.detector = 56 /\ pb_history[2].visit.detector = 56
    /\ Cardinality(pb_history[1].after) >= 6
    /\ pb_history[2].after = pb_history[1].after

\* The central repo has refcats, skymap and calibs for the visit, and no
\* template.
OnlyTemplatesMissing(visit) ==
    /\ QueryTemplates(pb_central, visit) = {}
    /\ QueryRefcats(pb_central, visit) # {}
    /\ QuerySkymaps(pb_central) # {}
    /\ QueryCalibs(pb_central, visit) # {}

\* C20: a call whose central repo lacks only the templates logs the absence
\* and completes, and afterwards the local repo has the visit's refcats,
\* skymap and calibs of the central repo and the exported collections.
C20_MissingTemplatesTolerated ==
    \A i \in DOMAIN pb_history :
        LET run == pb_history[i]
        IN  OnlyTemplatesMissing(run.visit) =>
              /\ run.error = ""
              /\ run.log = <<"_MissingDatasetError">>
              /\ QueryRefcats(pb_central, run.visit) \subseteq run.after
              /\ QuerySkymaps(pb_central) \subseteq run.after
              /\ QueryCalibs(pb_central, run.visit) \subseteq run.after
              /\ QueryTemplates(run.after, run.visit) = {}
              /\ queryCollections(Umbrella) \cup {TemplateCollection} \subseteq run.collections

\* C20 witness: a finished first call with no templates in the central repo
\* that copied refcats, the skymap and both calibs.
C20_Witness ==
    /\ Len(pb_history) = 1
    /\ OnlyTemplatesMissing(pb_history[1].visit)
    /\ pb_history[1].error = ""
    /\ Len(pb_history[1].log) = 1
    /\ Cardinality(pb_history[1].after) >= 4

\* C21: a call whose central repo has no calib at all for the visit's
\* detector ends with _MissingDatasetError, and the local repo has the
\* datasets it had before the call.
C21_NoCalibsIsMissingDataset ==
    \A i \in DOMAIN pb_history :
        LET run == pb_history[i]
        IN  (~ \E ref \in pb_central :
                 ref.type \in {"cpBias", "cpFlat"} /\ ref.dataId = run.visit.detector) =>
              /\ run.error = "_MissingDatasetError"
              /\ run.after = run.before

\* C21 witness: the central repo has refcats, the skymap, templates and the
\* calibs of detector 5 only; the call for detector 56 has raised in
\* _export_calibs with refcats, skymap and templates already in the export.
C21_Witness ==
    /\ pb_pc = "raised"
    /\ pb_visit.detector = 56
    /\ QueryCalibs(pb_central, pb_visit) = {}
    /\ \E ref \in pb_central : ref.type = "cpBias" /\ ref.dataId = 5
    /\ {ref.type : ref \in pb_export} = {"gaia", "skyMap", "goodSeeingCoadd"}
    /\ pb_history[Len(pb_history)].error = "_MissingDatasetError"
    /\ pb_local = pb_before.datasets

\* The local repo is as it was when the running prep_butler began.
LocalAsBefore ==
    /\ pb_local = pb_before.datasets
    /\ pb_collections = pb_before.collections
    /\ pb_chain = pb_before.chain

\* C23: until the export context has been left without an exception the
\* local repo is as before the call, a call that raised has left it so, and
\* a local repo that differs has received the whole export at once.
C23_ExportThenImport ==
    /\ pb_pc \in {"refcats", "skymap", "calibs", "collections", "import", "raised"}
          => LocalAsBefore
    /\ pb_pc \in {"prepend", "done"} =>
          /\ pb_local = pb_before.datasets \cup pb_export
          /\ pb_collections = pb_before.collections \cup pb_export_coll
          /\ {"gaia", "skyMap", "cpBias", "cpFlat"} \cap {ref.type : ref \in pb_local} # {}

\* C23 witness: after a successful call for detector 5, the call for detector
\* 56 has raised with refcats, skymap or templates already saved to the
\* export, and the local repo is as the first call left it.
C23_Witness ==
    /\ Len(pb_history) = 2
    /\ pb_history[1].error = "" /\ pb_history[1].visit.detector = 5
    /\ pb_history[2].error = "_MissingDatasetError"
    /\ pb_pc = "raised"
    /\ pb_export # {}
    /\ pb_local = pb_history[1].after
    /\ pb_local # {}

(***************************************************************************)
(* Properties of _export_calibs (SpecCalibs).                              *)
(***************************************************************************)
\* The calibs of the visit's detector that are valid at the visit's date.
ValidCalibs ==
    {ref \in ec_central :
        /\ ref.dataId = ec_visit.detector
        /\ ref.validity.begin <= ec_visit.date
        /\ ec_visit.date < ref.validity.end}

\* C22: the calibs saved for export are exactly those of the visit's
\* detector whose validity range contains the visit's date.
C22_OnlyValidCalibsCopied ==
    ec_pc = "saved" => ec_export = ValidCalibs

(***************************************************************************)
(* Properties of the chain helpers (SpecChain).                            *)
(***************************************************************************)
\* C24 as stated: after _prepend_collection the chain is the new
\* collections followed by the previous members, whatever the arguments.
C24_PrependKeepsEverything ==
    ch_pc = "prepended" => ch_chain = ch_arg \o ch_old

\* C24: when the new collections are distinct and none of them is already a
\* member, the chain becomes the new collections followed by the previous
\* members in their order (just the new ones on an empty chain); in every
\* case the members afterwards are the new and the previous ones, the chain
\* starts with the first new collection, and the previous members that are
\* not among the new ones keep their order.
C24_PrependDisjoint ==
    ch_pc = "prepended" =>
        /\ (NoDuplicates(ch_arg) /\ Range(ch_arg) \cap Range(ch_old) = {})
              => ch_chain = ch_arg \o ch_old
        /\ Range(ch_chain) = Range(ch_arg) \cup Range(ch_old)
        /\ ch_arg # <<>> => ch_chain[1] = ch_arg[1]
        /\ \A a, b \in Range(ch_old) \ Range(ch_arg) :
              \A i, j \in DOMAIN ch_old : (ch_old[i] = a /\ ch_old[j] = b /\ i < j) =>
                  \E k, l \in DOMAIN ch_chain :
                      ch_chain[k] = a /\ ch_chain[l] = b /\ k < l

\* C24 witness: _prepend3 has been put before the chain _prepend1, _prepend2.
C24_Witness ==
    /\ ch_pc = "prepended"
    /\ ch_old = <<"_prepend1", "_prepend2">>
    /\ ch_arg = <<"_prepend3">>
    /\ ch_chain = <<"_prepend3", "_prepend1", "_prepend2">>

(***************************************************************************)
(* Properties of the local repo's calls (SpecRepo).                        *)
(***************************************************************************)
\* The last call was op and it returned.
Returned(op) == lr_last.op = op /\ lr_last.error = ""
\* A chain without one collection, the rest in order.
Without(chain, collection) ==
    LET keep(member) == member # collection IN SelectSeq(chain, keep)

\* C25: after clean_local_repo(exposure_ids) returns, the local repo has no
\* raw of detector 56 for the given exposures, the output run and its
\* datasets are gone, and every chain is what it was without the output run.
C25_CleanRemovesVisitData ==
    Returned("clean_local_repo") =>
        /\ ~ \E ref \in lr_local : /\ ref.type = "raw"
                                   /\ ref.detector = VisitDetector
                                   /\ ref.exposure \in lr_last.exposure_ids
        /\ OutputRunName \notin lr_runs
        /\ ~ \E ref \in lr_local : ref.run = OutputRunName
        /\ \A chain \in DOMAIN lr_chains :
              /\ OutputRunName \notin Range(lr_chains[chain])
              /\ lr_chains[chain] = Without(lr_last.before.chains[chain], OutputRunName)

\* C25 witness: the local repo had the raw and the calexp of exposure 1 and
\* the output run in both chains; clean_local_repo({1}) has returned.
C25_Witness ==
    /\ Returned("clean_local_repo")
    /\ lr_last.exposure_ids = {1}
    /\ Dataset("raw", RawRun, VisitDetector, 1) \in lr_last.before.local
    /\ Dataset("calexp", OutputRunName, VisitDetector, 1) \in lr_last.before.local
    /\ lr_last.before.chains[GenericChain] = <<RawRun, OutputRunName>>
    /\ lr_chains[GenericChain] = <<RawRun>>
    /\ lr_chains[PromptChain] = <<Umbrella, RawRun>>

\* The collections that the central umbrella chain searches.
CentralInputCollections == {CalibRun, "refcats", "skymaps", "DECam/defaults"}

\* C26: a call other than export_outputs leaves the central repo as it was,
\* export_outputs only adds what it transferred, and the datasets of the
\* central input collections are always those the repo began with.
C26_CentralWrittenOnlyByExport ==
    /\ lr_last.op # "export_outputs" => lr_central = lr_last.before.central
    /\ lr_last.op = "export_outputs" =>
          lr_central = lr_last.before.central \cup lr_last.transferred
    /\ {ref \in lr_central : ref.run \in CentralInputCollections} = CentralInputs

\* C26 witness: after an export that added a raw and a calexp to the central
\* repo, clean_local_repo has emptied the output run of the local repo and
\* the central repo still has both.
C26_Witness ==
    /\ Returned("clean_local_repo")
    /\ lr_local # lr_last.before.local
    /\ Dataset("raw", RawRun, VisitDetector, 1) \in lr_central
    /\ Dataset("calexp", OutputRunName, VisitDetector, 1) \in lr_central
    /\ Dataset("calexp", OutputRunName, VisitDetector, 1) \notin lr_local

\* What the two subset queries of the last export_outputs call matched in
\* the local repo.
MatchedRaws ==
    {ref \in lr_last.before.local :
        /\ ref.type = "raw" /\ ref.run = RawRun
        /\ ref.detector = VisitDetector /\ ref.exposure \in lr_last.exposure_ids}
MatchedOutputs ==
    {ref \in lr_last.before.local :
        /\ ref.type \in {"raw", "calexp", "cpBias"} /\ ref.run = OutputRunName
        /\ ref.detector = VisitDetector /\ ref.exposure \in lr_last.exposure_ids}

\* C27: export_outputs returns only if both subset queries matched
\* something; with no matching raw it ends with ValueError and transfers
\* nothing, and with raws transferred and no matching output it ends with
\* ValueError too.
C27_EmptySubsetIsValueError ==
    lr_last.op = "export_outputs" =>
        /\ (MatchedRaws = {} \/ MatchedOutputs = {}) => lr_last.error # ""
        /\ MatchedRaws = {} =>
              lr_last.error = "ValueError" /\ lr_central = lr_last.before.central
        /\ (MatchedOutputs = {} /\ lr_last.transferred # {}) =>
              lr_last.error = "ValueError"

\* C27 witness: exposure 1 was ingested and processed, exposure 2 never
\* ingested; export_outputs({2}) has ended with ValueError.
C27_Witness ==
    /\ lr_last.op = "export_outputs"
    /\ lr_last.exposure_ids = {2}
    /\ lr_last.error = "ValueError"
    /\ Dataset("raw", RawRun, VisitDetector, 1) \in lr_local
    /\ Dataset("calexp", OutputRunName, VisitDetector, 1) \in lr_local
    /\ Dataset("raw", RawRun, VisitDetector, 2) \notin lr_local

\* C28 as stated: an export_outputs call that follows a successful
\* export_outputs call for the same exposures succeeds as well and leaves
\* the central repo with the datasets it had.
C28_ExportTwiceSucceeds ==
    (/\ lr_last.op = "export_outputs"
     /\ lr_last.prev.op = "export_outputs"
     /\ lr_last.prev.error = ""
     /\ lr_last.prev.exposure_ids = lr_last.exposure_ids) =>
        /\ lr_last.error = ""
        /\ lr_central = lr_last.before.central

\* C29: whatever export_outputs transfers is a dataset of the local repo
\* for detector 56 and one of the given exposures, and either a raw of the
\* raw run or a dataset of the output run whose type has the detector
\* dimension; the central repo never receives anything else.
C29_OnlyVisitDataTransferred ==
    /\ lr_last.op = "export_outputs" =>
          \A ref \in lr_last.transferred :
              /\ ref \in lr_last.before.local
              /\ ref.detector = VisitDetector
              /\ ref.exposure \in lr_last.exposure_ids
              /\ \/ ref.type = "raw" /\ ref.run = RawRun
                 \/ ref.type \in {"calexp", "cpBias"} /\ ref.run = OutputRunName
    /\ \A ref \in lr_central \ CentralInputs :
          /\ ref.detector = VisitDetector
          /\ ref.type \in {"raw", "calexp"}
          /\ ref.run \in {RawRun, OutputRunName}

\* C29 witness: the local repo has a calib, a config of the output run, a
\* raw and a calexp of detector 5, and raws of exposures 1 and 2;
\* export_outputs({1}) has transferred the raw and the calexp of detector 56,
\* exposure 1, and nothing else.
C29_Witness ==
    /\ Returned("export_outputs")
    /\ lr_last.exposure_ids = {1}
    /\ OtherDetectorDatasets \subseteq lr_local
    /\ Dataset("cpBias", CalibRun, VisitDetector, 0) \in lr_local
    /\ Dataset("isr_config", OutputRunName, 0, 0) \in lr_local
    /\ Dataset("raw", RawRun, VisitDetector, 2) \in lr_local
    /\ lr_last.transferred = {Dataset("raw", RawRun, VisitDetector, 1),
                              Dataset("calexp", OutputRunName, VisitDetector, 1)}

(***************************************************************************)
(* Properties of the raw paths (SpecPath).                                 *)
(***************************************************************************)
\* C30: the path of get_raw_path decodes to its fields.  For a generic
\* instrument OTHER_REGEXP gives back instrument, detector, group, snap,
\* exposure id and filter; for an LSST camera get_exp_id_from_oid gives back
\* the exposure id and the raft/sensor name of LSST_REGEXP is the one of the
\* detector number.
C30_PathRoundTrip ==
    rt_pc = "decoded" =>
        /\ rt_decoded.exp_id = rt_fields.exposure_id
        /\ IF rt_fields.instrument \notin LSST_CAMERA_LIST
           THEN LET m == rt_decoded.other
                IN  /\ m.matched
                    /\ m.instrument = rt_fields.instrument
                    /\ int(m.detector) = rt_fields.detector
                    /\ m.group = rt_fields.group
                    /\ int(m.snap) = rt_fields.snap
                    /\ int(m.expid) = rt_fields.exposure_id
                    /\ m.filter = rt_fields.filter
           ELSE LET m == rt_decoded.lsst
                IN  /\ m.matched
                    /\ m.instrument = rt_fields.instrument
                    /\ <<m.instrument, m.raft_sensor, rt_fields.detector>> \in DETECTOR_FROM_RS
                    /\ \A t \in DETECTOR_FROM_RS :
                          (t[1] = m.instrument /\ t[2] = m.raft_sensor)
                              => t[3] = rt_fields.detector

\* C30 witness: the path of an LSSTCam wavefront sensor has been decoded.
C30_Witness ==
    /\ rt_pc = "decoded"
    /\ rt_fields.instrument = "LSSTCam"
    /\ rt_fields.detector = 192
    /\ rt_fields.exposure_id = 2023031412
    /\ rt_path = "LSSTCam/20230/MC_O_20230_031412/MC_O_20230_031412_R00_SW1.fits"
    /\ rt_decoded.lsst.raft_sensor = "R00_SW1"
    /\ rt_decoded.exp_id = 2023031412

\* C31: the decoders never fail with an untyped exception.  Whatever the
\* path, is_path_consistent returns True or False and the other two return
\* a value or raise the "could not be parsed" error; for a path without "/"
\* is_path_consistent returns False and the other two raise that error.
C31_DecodersRejectWithOneError ==
    rt_pc = "oid decoded" =>
        /\ rt_decoded.consistent \in {"True", "False"}
        /\ rt_decoded.exp_id # OtherValueError
        /\ rt_decoded.group_id.raises # OtherValueError
        /\ NextSlash(rt_path, 0) = 0 =>
              /\ rt_decoded.consistent = "False"
              /\ rt_decoded.exp_id = CouldNotBeParsed
              /\ rt_decoded.group_id.raises = CouldNotBeParsed

(***************************************************************************)
(* Properties of next_visit_handler: order of the calls, repeated ingests. *)
(***************************************************************************)
AnyIngested == \E o \in Oids : ingested[o] > 0
IngestedIds == {o.expid : o \in {p \in Oids : ingested[p] > 0}}

\* C32: within one request prep_butler has returned before the scan for
\* arrived snaps and before any ingest_image call; run_pipeline is called at
\* most once, after the wait loop has ended, with exposure ids that have all
\* been ingested; and no ingest_image call follows it.
C32_StepsInOrder ==
    /\ []((pc = "scan" \/ AnyIngested) => prepped)
    /\ [](Len(pipeline_runs) <= 1)
    /\ [](pipeline_runs # <<>> =>
             /\ wait_exit # "none"
             /\ pc \in {"finally", "done"}
             /\ pipeline_runs[1] \subseteq IngestedIds)
    /\ [][pipeline_runs # <<>> => ingested' = ingested]_vars
    /\ [][pipeline_runs' # pipeline_runs => pc = "after"]_vars

\* C32 witness: the pipeline ran on two exposures, one found by the scan
\* and one announced by a notification.
C32_Witness ==
    /\ pc = "done"
    /\ prepped
    /\ wait_exit = "complete"
    /\ Cardinality(bucket) = 1
    /\ pipeline_runs = <<{"e1", "e2"}>>
    /\ IngestedIds = {"e1", "e2"}

(***************************************************************************)
(* Properties of concurrent _prepend_collection calls (SpecRace).          *)
(***************************************************************************)
BothDone == \A w \in Callers : cc_pc[w] = "done"
InChain(w) == Range(cc_new[w]) \subseteq Range(cc_chain)

\* C33: when the two calls do not overlap, the chain holds the collections
\* of both callers once both are done; a chain that lacks the collections of
\* one caller comes from calls that overlapped (the existence of such a
\* lost update is the witness).
C33_SequentialKeepsBoth ==
    BothDone =>
        /\ ~cc_overlap => \A w \in Callers : InChain(w)
        /\ \E w \in Callers : InChain(w)

\* C33 witness: both callers are done, the calls overlapped, and the chain
\* lacks the collections of caller 1.
C33_Witness ==
    /\ BothDone
    /\ cc_overlap
    /\ Range(cc_new[1]) \cap Range(cc_chain) = {}
    /\ InChain(2)

(***************************************************************************)
(* Properties of concurrent exports (SpecExport).                          *)
(***************************************************************************)
InOutputRun(central) == {ref \in central : ref.run = OutputRunName}

\* C34: two workspaces of different groups export into the same central
\* output run.  In every interleaving neither call raises, no step removes
\* a dataset of the central repo, and when both calls have returned the
\* central output run holds exactly one dataset for the data id of each
\* workspace, two in all.
C34_ConcurrentExportsKeepBoth ==
    /\ [](\A w \in Workspaces : ex_pc[w] # "raised")
    /\ []((\A w \in Workspaces : ex_pc[w] = "done") =>
             /\ InOutputRun(ex_central) =
                    {Dataset("calexp", OutputRunName, VisitDetector, ExposureOf(w)) :
                        w \in Workspaces}
             /\ Cardinality(InOutputRun(ex_central)) = 2
             /\ ex_start \subseteq ex_central)
    /\ [][ex_central \subseteq ex_central']_vars

\* C34 witness: both exports have returned into a central repo that had
\* calibs, the central output run has two datasets, and the config dataset
\* of workspace 1 stayed behind.
C34_Witness ==
    /\ \A w \in Workspaces : ex_pc[w] = "done"
    /\ Cardinality(InOutputRun(ex_central)) = 2
    /\ ex_start # {}
    /\ ex_local[1] # Processed(1)

(***************************************************************************)
(* Properties of the wait for the sidecar (FairSpecSidecar).               *)
(***************************************************************************)
\* C35: for the path of an LSST camera get_group_id_from_oid looks for the
\* sidecar at most 21 times (20 retries), sleeping once between two looks,
\* and always ends: it returns the GROUPID of the sidecar if a look found
\* the file, and raises once all 20 retries found none.
C35_SidecarWaitIsBounded ==
    /\ <>(sc_pc \in {"returned", "RuntimeError"})
    /\ [](sc_checks <= MaxRetries + 1 /\ sc_sleeps <= MaxRetries)
    /\ [](sc_pc \in {"check", "open", "returned"} => sc_sleeps = sc_count)
    /\ [](sc_pc = "returned" =>
             /\ sc_exists
             /\ sc_result = md_get(sc_md, "GROUPID", ""))
    /\ [](sc_pc = "RuntimeError" =>
             /\ sc_count = MaxRetries + 1
             /\ sc_checks = MaxRetries + 1
             /\ sc_sleeps = MaxRetries)

\* C35 witness: the sidecar arrived after five retries and its GROUPID was
\* returned.
C35_Witness ==
    /\ sc_pc = "returned"
    /\ sc_count = 5
    /\ sc_checks = 6
    /\ sc_sleeps = 5
    /\ sc_result = "2023-03-14T05:06:07.890"
    /\ sc_sidecar = "LSSTCam/20230/MC_O_20230_000012/MC_O_20230_000012_R01_S01.json"

(***************************************************************************)
(* Properties of the output chain of a workspace (SpecRepo).               *)
(***************************************************************************)
OutputRuns == {OutputRunName, PreviousRunName}
PipelineInputs == {Umbrella, RawRun}
output_collection == lr_chains[PromptChain]

\* C36: after every call of a MiddlewareInterface, an output run that
\* exists in the local repo is a member of the output chain, and in the
\* chain every output run comes before the umbrella collection and the raw
\* run.
C36_OutputsFirstInChain ==
    /\ \A run \in OutputRuns \cap lr_runs : run \in Range(output_collection)
    /\ \A i, j \in DOMAIN output_collection :
          (output_collection[i] \in OutputRuns /\ output_collection[j] \in PipelineInputs)
              => i < j

\* C36 witness: the output run was removed by clean_local_repo and another
\* MiddlewareInterface put it back in front of the run of the day before.
C36_Witness ==
    /\ lr_last.op = "init"
    /\ lr_last.prev.op = "clean_local_repo"
    /\ lr_last.prev.error = ""
    /\ OutputRunName \notin lr_last.before.runs
    /\ output_collection = <<OutputRunName, PreviousRunName, Umbrella, RawRun>>

C38_IngestedOncePerObject ==
    \A o \in Oids : ingested[o] <= 1

\* C39: an export_outputs call that raises leaves in the central repo no
\* dataset that was not there before the call.
C39_FailedExportLeavesCentralAlone ==
    (lr_last.op = "export_outputs" /\ lr_last.error # "") =>
        lr_central \subseteq lr_last.before.central

\* C40: when the wait ends complete, every expected snap index
\* 0..snaps-1 has an ingested object, so an exposure id was recorded for it.
SnapArrived(k) ==
    \E o \in Oids : /\ RawMatch(o)
                    /\ IntOf(o.snap) = k
                    /\ ingested[o] > 0
C40_CompleteMeansEverySnap ==
    wait_exit = "complete" =>
        \A k \in 0..(expected_visit.snaps - 1) : SnapArrived(k)

====
